---- MODULE Spec2Model ----
(***************************************************************************)
(* Resumable harvest-and-enrich jobs of the lead-generation dashboard:     *)
(* scripts/maps.py, yelp.py, hunter.py, youtube.py, instagram_combined.py  *)
(* and the followers fetcher (scripts/tiktok_hashtag_scraper.py), with the *)
(* run recorder of db.py.                                                  *)
(*                                                                         *)
(* One behaviour follows ONE job type (chosen in Init) through a sequence  *)
(* of non-overlapping runs of its main().  The jobs share no blob and no   *)
(* file; the deployment has GCS_BUCKET set, so every load is "download the *)
(* blob if it exists, then read the local file" and every save is "write   *)
(* the local file, then upload it".                                        *)
(***************************************************************************)
EXTENDS Integers, Sequences, FiniteSets, TLC

VARIABLES
    job,      \* the job type whose runs this behaviour follows
    runs,     \* relational store: table runs, indexed by id (1..Len)
    events,   \* relational store: table events, as the set of (run_id, source) that have rows
    gcs,      \* object storage: blob name -> [exists, data]
    tmp,      \* local files under /tmp: file name -> [exists, data]
    pc,       \* position of main()
    run_id,   \* id returned by start_run for the current run (0: none)
    exc,      \* exception in flight in main() or raised by it ("none": none)
    loc,      \* local variables of main() and the state of its worker pool
    pre,      \* history: what was stored when the current run started
    rejected  \* history: the store refused a finish_run of the current run

vars == <<job, runs, events, gcs, tmp, pc, run_id, exc, loc, pre, rejected>>

(* ------------------------------ bounds -------------------------------- *)
MaxRuns == 2          \* runs of the job in one behaviour

(* --------------------------- small helpers ---------------------------- *)
Min(a, b) == IF a <= b THEN a ELSE b

Range(s) == {s[k] : k \in 1..Len(s)}

RECURSIVE Filter(_, _)
\* [x for x in s if x \notin drop]
Filter(s, drop) ==
    IF s = <<>> THEN <<>>
    ELSE IF Head(s) \in drop THEN Filter(Tail(s), drop)
         ELSE <<Head(s)>> \o Filter(Tail(s), drop)

Jobs == {"maps", "yelp", "hunter", "youtube", "followers", "instagram"}

\* "except Exception": the exceptions the handler of main() catches
\* (SystemExit derives from BaseException, not from Exception)
Caught(e) == e # "SystemExit"

(* ------------------------------ db.py --------------------------------- *)
\* INSERT INTO runs (...) VALUES (..., 'running') RETURNING id
start_run(table, source) ==
    Append(table, [source |-> source, status |-> "running",
                   finished_at |-> 0, meta |-> "null"])

\* an UPDATE that sets the source column as well
finish_run_sets_source(table, id, status, meta) ==
    [table EXCEPT ![id] = [@ EXCEPT !.source = status, !.status = status,
                                    !.finished_at = @ + 1, !.meta = meta]]

\* UPDATE runs SET status, finished_at, meta WHERE id = :id  (no guard on the
\* current status).  finished_at counts the updates applied to the row: every
\* update stores a fresh _utcnow().
finish_run(table, id, status, meta) ==
    [table EXCEPT ![id] = [@ EXCEPT !.status = status,
                                    !.finished_at = @ + 1,
                                    !.meta = meta]]

\* INSERT INTO events (run_id, source, created_at, payload), one per row
insert_df(table, id, source) == table \cup {<<id, source>>}

(* --------------------------- object storage --------------------------- *)
NoBlob(default) == [exists |-> FALSE, data |-> default]
Blob(d) == [exists |-> TRUE, data |-> d]

\* gcs_download_if_exists(local, object): the local file after the call
gcs_download_if_exists(local, blob) == IF blob.exists THEN blob ELSE local

(* ----------------- followers: tiktok_hashtag_scraper.py --------------- *)
BATCH_SIZE == 3
PARALLEL_USERS == 2

Usernames == {"Al", "al", "bo"}

\* str.lower()
Lower(u) == IF u = "Al" THEN "al" ELSE u

F_DefaultProgress == [processed_usernames |-> {}, total_runs |-> 0]

\* what get_target_usernames() can return or raise
F_Inputs ==
    {[kind |-> "missing", names |-> <<>>]} \cup
    {[kind |-> "list", names |-> s] :
        s \in {<<>>, <<"Al", "bo">>, <<"bo", "bo", "al", "Al">>}}

\* what the upstream actor call of one target can do
Upstream == {"rows", "no_dataset", "raise"}

\* scrape_one with the exception of the fetch escaping (no try/except)
scrape_one_uncaught(username, up) ==
    [source_username |-> username,
     status |-> IF up = "rows" THEN "ok" ELSE "no_dataset",
     raised |-> up = "raise"]

\* scrape_one(username, run_id): the result record of one target
scrape_one(username, up) ==
    [source_username |-> username,
     status |-> CASE up = "rows" -> "ok"
                  [] up = "no_dataset" -> "no_dataset"
                  [] OTHER -> "error",
     raised |-> FALSE]

F_InitLoc ==
    [usernames |-> <<>>, targets |-> <<>>, loaded |-> {}, i |-> 0, futs |-> <<>>, taken |-> {},
     summary |-> <<>>, processed_now |-> <<>>, fetched |-> <<>>, ups |-> {},
     delays |-> 0, cooldowns |-> 0,
     progress |-> F_DefaultProgress]

F_Batch == SubSeq(loc.usernames, loc.i + 1, Min(loc.i + BATCH_SIZE, Len(loc.usernames)))

\* load_progress(): the local file after the download attempt, parsed
F_load_progress(local) == IF local.exists THEN local.data ELSE F_DefaultProgress

\* main(), lines 283-295: load the progress, pick the targets, drop the done ones
F_Load ==
    /\ job = "followers" /\ pc = "load"
    /\ \E fail \in {"none", "progress_download"}, inp \in F_Inputs :
         LET local == gcs_download_if_exists(tmp.progress, gcs.progress)
             progress == F_load_progress(local)
             done == {Lower(u) : u \in progress.processed_usernames}
             seen_before == progress.processed_usernames
             usernames == Filter(inp.names, {u \in Usernames : Lower(u) \in done})
         IN  IF fail = "progress_download"
             THEN /\ pc' = "except" /\ exc' = "StorageError"
                  /\ UNCHANGED <<tmp, loc>>
             ELSE /\ tmp' = [tmp EXCEPT !.progress = local]
                  /\ IF inp.kind = "missing"
                     THEN /\ pc' = "except" /\ exc' = "ValueError"
                          /\ loc' = [loc EXCEPT !.progress = progress, !.loaded = seen_before]
                     ELSE /\ loc' = [loc EXCEPT !.progress = progress, !.loaded = seen_before,
                                                !.targets = inp.names,
                                                !.usernames = usernames]
                          /\ pc' = IF usernames = <<>> THEN "finish_ok" ELSE "submit"
                          /\ exc' = exc
    /\ UNCHANGED <<job, runs, events, gcs, run_id, pre, rejected>>

\* where main() goes after the n-th submit of the batch
F_batch_next(n) == IF n = Len(F_Batch) THEN "collect" ELSE "submit"

\* a submit loop without the sleep
F_after_submit_no_sleep(n) == F_batch_next(n)

\* main(), lines 307-308: the sleep comes after the submit
F_after_submit(n) == "sleep"

\* futures.append(ex.submit(scrape_one, u, run_id)): the call is handed to the pool
F_Submit ==
    /\ job = "followers" /\ pc = "submit"
    /\ Len(loc.futs) < Len(F_Batch)
    /\ loc' = [loc EXCEPT !.futs = Append(@, [st |-> "queued", res |-> scrape_one("bo", "raise")])]
    /\ pc' = F_after_submit(Len(loc.futs) + 1)
    /\ UNCHANGED <<job, runs, events, gcs, tmp, run_id, exc, pre, rejected>>

\* time.sleep(SLEEP_BETWEEN_USER_START_SEC), while the pool works
F_StartDelay ==
    /\ job = "followers" /\ pc = "sleep"
    /\ loc' = [loc EXCEPT !.delays = @ + 1]
    /\ pc' = F_batch_next(Len(loc.futs))
    /\ UNCHANGED <<job, runs, events, gcs, tmp, run_id, exc, pre, rejected>>

\* safe_name(s): the names of the model consist of word characters, which the
\* substitution keeps, and are shorter than the cut at 120
safe_name(s) == IF s = "" THEN "unknown" ELSE s

\* scrape_one, lines 189-193: the folder the call creates and writes followers.csv to
F_folder(username) == <<"BASE_DIR", safe_name(username)>>

F_Running == {k \in 1..Len(loc.futs) : loc.futs[k].st = "running"}
F_Queued == {k \in 1..Len(loc.futs) : loc.futs[k].st = "queued"}

\* a pool that starts a thread for every submitted call
F_pool_unbounded(running) == TRUE

\* ThreadPoolExecutor(max_workers=PARALLEL_USERS): a worker is free
F_pool_has_room(running) == Cardinality(running) < PARALLEL_USERS

\* a free worker of the pool takes the oldest queued call; the upstream fetch starts
F_WorkerStart ==
    /\ job = "followers" /\ pc \in {"submit", "sleep", "collect", "abort"}
    /\ F_Queued # {}
    /\ F_pool_has_room(F_Running)
    /\ LET k == CHOOSE q \in F_Queued : \A r \in F_Queued : q <= r
       IN  loc' = [loc EXCEPT !.futs[k].st = "running",
                              !.fetched = Append(@, F_Batch[k])]
    /\ UNCHANGED <<job, runs, events, gcs, tmp, pc, run_id, exc, pre, rejected>>

\* scrape_one returns (or raises) in its worker thread
F_WorkerFinish ==
    /\ job = "followers" /\ pc \in {"submit", "sleep", "collect", "abort"}
    /\ \E k \in F_Running, up \in Upstream :
         loc' = [loc EXCEPT !.futs[k] = [st |-> "done", res |-> scrape_one(F_Batch[k], up)],
                            !.ups = @ \cup {<<loc.i + k, up>>}]
    /\ UNCHANGED <<job, runs, events, gcs, tmp, pc, run_id, exc, pre, rejected>>

\* the loop over the futures left after the first completed one
F_batch_over_first(taken) == taken # {}

\* "for fut in as_completed(futures)" ends when every future of the batch was yielded
F_batch_over(taken) == taken = 1..Len(F_Batch)

\* the name of the target submitted at the position the result was yielded at
F_source_username_by_position(res, submitted) == submitted

\* res.get("source_username", ""): the name the completed call reports
F_source_username(res, submitted) == res.source_username

\* a test that takes every result as processed
F_counts_as_processed_any(status) == TRUE

\* main(), line 325: if res.get("status") in {"ok", "no_dataset"}
F_counts_as_processed(status) == status \in {"ok", "no_dataset"}

\* one iteration of "for fut in as_completed(futures)", lines 310-354, and, after
\* the last one of the batch, the end of the with block and the cooldown
F_Collect ==
    /\ job = "followers" /\ pc = "collect"
    /\ \E k \in 1..Len(loc.futs), upload_ok \in BOOLEAN, insert_ok \in BOOLEAN :
         /\ k \notin loc.taken
         /\ loc.futs[k].st = "done"
         /\ LET res == loc.futs[k].res
                name == F_source_username(res, F_Batch[Cardinality(loc.taken) + 1])
                entry == [run_id |-> run_id, source_username |-> name,
                          status |-> res.status]
                last == F_batch_over(loc.taken \cup {k})
                more == loc.i + BATCH_SIZE < Len(loc.usernames)
                loc1 == [loc EXCEPT
                           !.taken = @ \cup {k},
                           !.summary = Append(@, entry),
                           !.processed_now =
                               IF F_counts_as_processed(res.status)
                               THEN Append(@, name) ELSE @]
            IN  IF res.raised
                THEN \* fut.result() re-raises inside the with block
                     /\ pc' = "abort" /\ exc' = "FetchError"
                     /\ loc' = [loc EXCEPT !.taken = @ \cup {k}]
                     /\ UNCHANGED events
                ELSE IF ~upload_ok
                THEN \* upload_user_outputs_to_gcs raises
                     /\ pc' = "abort" /\ exc' = "StorageError"
                     /\ loc' = loc1
                     /\ UNCHANGED events
                ELSE /\ events' = IF res.status = "ok" /\ insert_ok
                                  THEN insert_df(events, run_id, "tiktok_followers")
                                  ELSE events
                     /\ exc' = exc
                     /\ IF ~last THEN /\ pc' = "collect" /\ loc' = loc1
                        ELSE /\ loc' = [loc1 EXCEPT !.i = @ + BATCH_SIZE,
                                                    !.futs = <<>>, !.taken = {},
                                                    !.delays = 0, !.cooldowns = @ + 1]
                             /\ pc' = IF more THEN "submit" ELSE "save"
    /\ UNCHANGED <<job, runs, gcs, tmp, run_id, pre, rejected>>

\* ThreadPoolExecutor.__exit__: shutdown(wait=True) before the exception goes on
F_AbortWait ==
    /\ job = "followers" /\ pc = "abort"
    /\ F_Queued = {} /\ F_Running = {}
    /\ pc' = "except"
    /\ UNCHANGED <<job, runs, events, gcs, tmp, run_id, exc, loc, pre, rejected>>

\* set(progress.get("processed_usernames", []) + processed_now), without the old ones
F_processed_now_only(old, processed_now) == Range(processed_now)

\* sorted(list(set(progress.get("processed_usernames", []) + processed_now)))
F_processed(old, processed_now) == old \cup Range(processed_now)

\* main(), lines 359-379: summary.xlsx, progress, the run-summary row
F_Save ==
    /\ job = "followers" /\ pc = "save"
    /\ \E fail \in {"none", "summary_upload", "progress_upload", "insert_df"} :
         LET progress == [processed_usernames |->
                              F_processed(loc.progress.processed_usernames, loc.processed_now),
                          total_runs |-> loc.progress.total_runs + 1]
         IN  /\ loc' = IF fail = "summary_upload" THEN loc
                       ELSE [loc EXCEPT !.progress = progress]
             /\ tmp' = IF fail = "summary_upload" THEN tmp
                       ELSE [tmp EXCEPT !.progress = Blob(progress)]
             /\ gcs' = IF fail \in {"summary_upload", "progress_upload"} THEN gcs
                       ELSE [gcs EXCEPT !.progress = Blob(progress)]
             /\ events' = IF fail = "none" THEN insert_df(events, run_id, "runs") ELSE events
             /\ pc' = IF fail = "none" THEN "finish_ok" ELSE "except"
             /\ exc' = CASE fail = "none" -> exc
                         [] fail = "insert_df" -> "DbError"
                         [] OTHER -> "StorageError"
    /\ UNCHANGED <<job, runs, run_id, pre, rejected>>

(* ---------------- pandas: Excel files and drop_duplicates -------------- *)
\* A cell is a string; "" is the empty string and NaN is pandas' missing value.
NaN == "NaN"

\* DataFrame.to_excel: a missing value is written as an empty cell
to_excel_cell(c) == IF c = NaN THEN "" ELSE c

\* pd.read_excel: an empty cell is read as a missing value
read_excel_cell(c) == IF c = "" THEN NaN ELSE c

RECURSIVE drop_duplicates_keep_last(_, _)
\* drop_duplicates(subset, keep="last")
drop_duplicates_keep_last(rows, keys) ==
    IF rows = <<>> THEN <<>>
    ELSE IF \E k \in 2..Len(keys) : keys[k] = Head(keys)
         THEN drop_duplicates_keep_last(Tail(rows), Tail(keys))
         ELSE <<Head(rows)>> \o drop_duplicates_keep_last(Tail(rows), Tail(keys))

\* drop_duplicates(subset, keep=False): every row whose key occurs twice is dropped
drop_duplicates_keep_none(rows, keys) ==
    LET kept == {k \in 1..Len(rows) : \A j \in 1..Len(rows) : keys[j] = keys[k] => j = k}
        F[n \in 0..Len(rows)] ==
            IF n = 0 THEN <<>>
            ELSE IF n \in kept THEN Append(F[n - 1], rows[n]) ELSE F[n - 1]
    IN  F[Len(rows)]

RECURSIVE drop_duplicates(_, _)
\* DataFrame.drop_duplicates(subset=..., keep="first"); keys[k] is the subset
\* of columns of rows[k]
drop_duplicates(rows, keys) ==
    IF rows = <<>> THEN <<>>
    ELSE LET n == Len(rows)
             last == rows[n]
             front == drop_duplicates(SubSeq(rows, 1, n - 1), SubSeq(keys, 1, n - 1))
         IN  IF \E k \in 1..(n - 1) : keys[k] = keys[n]
             THEN front
             ELSE Append(front, last)

\* the new frame alone, the existing rows left out
concat_new_only(new, existing) == new

\* pd.concat([new, existing], ignore_index=True)
concat(new, existing) == new \o existing

(* ------------------------------ maps.py -------------------------------- *)
M_CITIES == <<"New York, NY", "Los Angeles, CA">>
M_SEARCH_KEYWORDS == <<"Medspa", "Botox">>

M_DefaultProgress == [last_completed_city |-> "None", completed_cities |-> <<>>, total_runs |-> 0]

\* subset=["Title", "Phone", "Website"]
M_Key(r) == <<r.Title, r.Phone, r.Website>>

M_Keys(rows) == [k \in 1..Len(rows) |-> M_Key(rows[k])]

\* pd.read_excel(MASTER_FILE)
M_read_excel(file) ==
    [k \in 1..Len(file) |->
        [file[k] EXCEPT !.Title = read_excel_cell(@), !.Phone = read_excel_cell(@),
                        !.Website = read_excel_cell(@)]]

\* combined_data.to_excel(writer, ...)
M_to_excel(rows) ==
    [k \in 1..Len(rows) |->
        [rows[k] EXCEPT !.Title = to_excel_cell(@), !.Phone = to_excel_cell(@),
                        !.Website = to_excel_cell(@)]]

\* new_data["Scraped_Date"] = ...; new_data["Batch_City"] = city
M_stamp(new_data, city, now) ==
    [k \in 1..Len(new_data) |-> [new_data[k] EXCEPT !.Scraped_Timestamp = now, !.Batch_City = city]]

\* save_to_master(existing_data, new_data, city): the combined frame
M_save_to_master(existing_data, new_data, city, now) ==
    LET stamped == M_stamp(new_data, city, now)
        combined_data == IF existing_data = <<>> THEN stamped
                         ELSE concat(stamped, existing_data)
    IN  drop_duplicates(combined_data, M_Keys(combined_data))

\* a cursor that always names the first city of the list
M_get_next_city_first(progress) == M_CITIES[1]

\* get_next_city(progress)
M_get_next_city(progress) ==
    LET open == {k \in 1..Len(M_CITIES) : M_CITIES[k] \notin Range(progress.completed_cities)}
    IN  IF open = {} THEN M_CITIES[1]
        ELSE M_CITIES[CHOOSE k \in open : \A j \in open : k <= j]

\* load_existing_data() taking its "except" branch
M_load_existing_data_empty(local) == <<>>

\* load_existing_data(): the frame read from the local file after the download
M_load_existing_data(local) == IF local.exists THEN M_read_excel(local.data) ELSE <<>>

M_Item(t, p, w) ==
    [Title |-> t, Phone |-> p, Website |-> w, v |-> 0,
     Scraped_Timestamp |-> 0, Batch_City |-> ""]

\* what one actor call of scrape_city can give: the items of the dataset, or an exception
M_Upstream ==
    {[raise |-> TRUE, items |-> <<>>],
     [raise |-> FALSE, items |-> <<>>],
     [raise |-> FALSE, items |-> <<M_Item("t1", "", "w")>>],
     [raise |-> FALSE, items |-> <<M_Item("t2", "p", "w"), M_Item("t1", "", "w")>>]}

\* the explicitly selected city taking precedence over the cursor
M_current_city_selected_first(use_progress, selected_city, progress) ==
    IF selected_city # "None" THEN selected_city ELSE M_get_next_city(progress)

\* main(), lines 252-255: the city of the run ("None" when there is none)
M_current_city(use_progress, selected_city, progress) ==
    IF use_progress THEN M_get_next_city(progress) ELSE selected_city

M_InitLoc ==
    [progress |-> M_DefaultProgress, existing_data |-> <<>>, current_city |-> "None",
     keywords |-> <<>>, kw |-> 0, new_results |-> <<>>, fetched |-> <<>>]

\* main(), lines 249-260
M_Load ==
    /\ job = "maps" /\ pc = "load"
    /\ \E fail \in {"none", "progress_download"},
          use_progress \in BOOLEAN,
          selected_city \in {"None", M_CITIES[2]},
          selected_keywords \in {<<>>, <<"Botox">>} :
         LET plocal == gcs_download_if_exists(tmp.progress, gcs.progress)
             progress == IF plocal.exists THEN plocal.data ELSE M_DefaultProgress
             mlocal == gcs_download_if_exists(tmp.master, gcs.master)
             existing_data == M_load_existing_data(mlocal)
             current_city == M_current_city(use_progress, selected_city, progress)
             keywords_to_use == IF selected_keywords # <<>> THEN selected_keywords
                                ELSE M_SEARCH_KEYWORDS
         IN  IF fail = "progress_download"
             THEN /\ pc' = "except" /\ exc' = "StorageError"
                  /\ UNCHANGED <<tmp, loc>>
             ELSE /\ tmp' = [tmp EXCEPT !.progress = plocal, !.master = mlocal]
                  /\ loc' = [loc EXCEPT !.progress = progress, !.existing_data = existing_data,
                                        !.current_city = current_city,
                                        !.keywords = keywords_to_use]
                  /\ IF current_city = "None"
                     THEN pc' = "except" /\ exc' = "ValueError"
                     ELSE pc' = "scrape" /\ exc' = exc
    /\ UNCHANGED <<job, runs, events, gcs, run_id, pre, rejected>>

\* scrape_city: one iteration of "for keyword in keywords" (no try/except around the call)
M_Scrape ==
    /\ job = "maps" /\ pc = "scrape"
    /\ \E up \in M_Upstream :
         LET kw == loc.kw + 1
             got == [k \in 1..Len(up.items) |-> [up.items[k] EXCEPT !.v = kw]]
         IN  IF up.raise
             THEN /\ pc' = "except" /\ exc' = "UpstreamError"
                  /\ loc' = [loc EXCEPT !.kw = kw, !.fetched = Append(@, loc.keywords[kw])]
             ELSE /\ loc' = [loc EXCEPT !.kw = kw, !.fetched = Append(@, loc.keywords[kw]),
                                        !.new_results = @ \o got]
                  /\ pc' = IF kw = Len(loc.keywords) THEN "save" ELSE "scrape"
                  /\ exc' = exc
    /\ UNCHANGED <<job, runs, events, gcs, tmp, run_id, pre, rejected>>

\* progress["completed_cities"] + [current_city] when it is not in the list yet
M_mark_city(progress, city) ==
    [progress EXCEPT !.last_completed_city = city,
                     !.completed_cities = IF city \in Range(@) THEN @ ELSE Append(@, city)]

\* the progress is saved ahead of save_to_master and insert_df
M_saves_progress_always(f) == TRUE

\* main(), lines 268-282: save_progress comes after save_to_master and insert_df,
\* so it is reached when neither of them raised
M_saves_progress(f) == f \notin {"master_upload", "insert_df"}

\* main(), lines 264-296: master, live rows, progress
M_Save ==
    /\ job = "maps" /\ pc = "save"
    /\ \E fail \in {"none", "master_upload", "insert_df", "progress_upload"} :
         LET has == loc.new_results # <<>>
             combined == M_save_to_master(loc.existing_data, loc.new_results,
                                          loc.current_city, run_id)
             marked == M_mark_city(loc.progress, loc.current_city)
             progress == IF has THEN [marked EXCEPT !.total_runs = @ + 1] ELSE marked
             f == IF has THEN fail
                  ELSE IF fail = "progress_upload" THEN fail ELSE "none"
             master_done == has
             db_done == has /\ f \notin {"master_upload"}
             prog_done == M_saves_progress(f)
         IN  /\ tmp' = [tmp EXCEPT
                          !.master = IF master_done THEN Blob(M_to_excel(combined)) ELSE @,
                          !.progress = IF prog_done THEN Blob(progress) ELSE @]
             /\ gcs' = [gcs EXCEPT
                          !.master = IF master_done /\ f # "master_upload"
                                     THEN Blob(M_to_excel(combined)) ELSE @,
                          !.progress = IF prog_done /\ f # "progress_upload"
                                       THEN Blob(progress) ELSE @]
             /\ events' = IF db_done /\ f # "insert_df"
                          THEN insert_df(events, run_id, "maps") ELSE events
             /\ loc' = [loc EXCEPT !.progress = IF prog_done THEN progress ELSE @]
             /\ pc' = IF f = "none" THEN "finish_ok" ELSE "except"
             /\ exc' = CASE f = "none" -> exc
                         [] f = "insert_df" -> "DbError"
                         [] OTHER -> "StorageError"
    /\ UNCHANGED <<job, runs, run_id, pre, rejected>>

(* ------------------------------ yelp.py -------------------------------- *)
Y_CITIES == <<"New York, NY", "Los Angeles, CA">>
Y_SEARCH_KEYWORDS == <<"Medspa", "Botox">>

Y_DefaultProgress == [completed_cities |-> <<>>, total_runs |-> 0]

\* subset=["Yelp_URL"]
Y_Keys(rows) == [k \in 1..Len(rows) |-> rows[k].Yelp_URL]

\* pd.read_excel(MASTER_FILE)
Y_read_excel(file) ==
    [k \in 1..Len(file) |-> [file[k] EXCEPT !.Yelp_URL = read_excel_cell(@)]]

\* combined.to_excel(MASTER_FILE, index=False)
Y_to_excel(rows) ==
    [k \in 1..Len(rows) |-> [rows[k] EXCEPT !.Yelp_URL = to_excel_cell(@)]]

\* new["Scraped_Date"] = ...; new["Batch_City"] = city
Y_stamp(new, city, now) ==
    [k \in 1..Len(new) |-> [new[k] EXCEPT !.Scraped_Date = now, !.Batch_City = city]]

\* save_to_master(existing, new, city): the combined frame
Y_save_to_master(existing, new, city, now) ==
    LET stamped == Y_stamp(new, city, now)
        combined == IF existing # <<>> THEN concat(stamped, existing) ELSE stamped
    IN  drop_duplicates(combined, Y_Keys(combined))

\* get_next_city(progress)
Y_get_next_city(progress) ==
    LET open == {k \in 1..Len(Y_CITIES) : Y_CITIES[k] \notin Range(progress.completed_cities)}
    IN  IF open = {} THEN Y_CITIES[1]
        ELSE Y_CITIES[CHOOSE k \in open : \A j \in open : k <= j]

\* load_existing_data(): the frame read from the local file after the download
Y_load_existing_data(local) == IF local.exists THEN Y_read_excel(local.data) ELSE <<>>

\* what one actor call of scrape_city can give: the urls of the items, or an exception
Y_Upstream ==
    {[raise |-> TRUE, urls |-> <<>>],
     [raise |-> FALSE, urls |-> <<"">>],
     [raise |-> FALSE, urls |-> <<"u1">>],
     [raise |-> FALSE, urls |-> <<"u2", "u1", "u2">>]}

\* a test that skips only the items without a url
Y_skip_blank_only(url, seen_urls) == url = ""

\* scrape_city, line 184: if not url or url in seen_urls: continue
Y_skip(url, seen_urls) == url = "" \/ url \in seen_urls

RECURSIVE Y_items(_, _, _)
\* the loop over iterate_items() of one keyword: <<results, seen_urls>> after it
Y_items(urls, kw, acc) ==
    IF urls = <<>> THEN acc
    ELSE LET url == Head(urls)
         IN  IF Y_skip(url, acc[2])
             THEN Y_items(Tail(urls), kw, acc)
             ELSE Y_items(Tail(urls), kw,
                          <<Append(acc[1], [Yelp_URL |-> url, v |-> kw,
                                            Scraped_Date |-> 0, Batch_City |-> ""]),
                            acc[2] \cup {url}>>)

\* main(), lines 223-229: the city of the run
Y_city(use_progress, selected_city, progress) ==
    LET city == IF use_progress THEN Y_get_next_city(progress) ELSE selected_city
    IN  IF city = "None" THEN Y_CITIES[1] ELSE city

Y_InitLoc ==
    [progress |-> Y_DefaultProgress, existing |-> <<>>, seen |-> {}, loaded |-> {},
     city |-> "None", keywords |-> <<>>, kw |-> 0, new |-> <<>>, fetched |-> <<>>,
     failed |-> {}]

\* main(), lines 219-231
Y_Load ==
    /\ job = "yelp" /\ pc = "load"
    /\ \E fail \in {"none", "progress_download"},
          use_progress \in BOOLEAN,
          selected_city \in {"None", Y_CITIES[2]},
          selected_keywords \in {<<>>, <<"Botox">>} :
         LET plocal == gcs_download_if_exists(tmp.progress, gcs.progress)
             progress == IF plocal.exists THEN plocal.data ELSE Y_DefaultProgress
             mlocal == gcs_download_if_exists(tmp.master, gcs.master)
             existing == Y_load_existing_data(mlocal)
             slocal == gcs_download_if_exists(tmp.seen, gcs.seen)
             seen == IF slocal.exists THEN slocal.data ELSE {}
             city == Y_city(use_progress, selected_city, progress)
             keywords_to_use == IF selected_keywords # <<>> THEN selected_keywords
                                ELSE Y_SEARCH_KEYWORDS
         IN  IF fail = "progress_download"
             THEN /\ pc' = "except" /\ exc' = "StorageError"
                  /\ UNCHANGED <<tmp, loc>>
             ELSE /\ tmp' = [tmp EXCEPT !.progress = plocal, !.master = mlocal,
                                        !.seen = slocal]
                  /\ loc' = [loc EXCEPT !.progress = progress, !.existing = existing,
                                        !.seen = seen, !.loaded = seen, !.city = city,
                                        !.keywords = keywords_to_use]
                  /\ pc' = "scrape" /\ exc' = exc
    /\ UNCHANGED <<job, runs, events, gcs, run_id, pre, rejected>>

\* scrape_city: one iteration of "for keyword in keywords", inside its try/except
Y_Scrape ==
    /\ job = "yelp" /\ pc = "scrape"
    /\ \E up \in Y_Upstream :
         LET kw == loc.kw + 1
             got == Y_items(up.urls, kw, <<loc.new, loc.seen>>)
         IN  /\ loc' = IF up.raise
                       THEN [loc EXCEPT !.kw = kw, !.fetched = Append(@, loc.keywords[kw]),
                                        !.failed = @ \cup {kw}]
                       ELSE [loc EXCEPT !.kw = kw, !.fetched = Append(@, loc.keywords[kw]),
                                        !.new = got[1], !.seen = got[2]]
             /\ pc' = IF kw = Len(loc.keywords) THEN "save" ELSE "scrape"
    /\ UNCHANGED <<job, runs, events, gcs, tmp, run_id, exc, pre, rejected>>

\* the city appended without the membership test
Y_mark_city_always(progress, city) ==
    [progress EXCEPT !.completed_cities = Append(@, city), !.total_runs = @ + 1]

\* progress.setdefault("completed_cities", []).append(city) when it is not in the list
Y_mark_city(progress, city) ==
    [progress EXCEPT !.completed_cities = IF city \in Range(@) THEN @ ELSE Append(@, city),
                     !.total_runs = @ + 1]

\* main(), lines 235-266: master, live rows, progress, seen urls
Y_Save ==
    /\ job = "yelp" /\ pc = "save"
    /\ \E fail \in {"none", "master_upload", "insert_df", "progress_upload", "seen_upload"} :
         LET has == loc.new # <<>>
             combined == Y_save_to_master(loc.existing, loc.new, loc.city, run_id)
             progress == Y_mark_city(loc.progress, loc.city)
             f == IF has THEN fail
                  ELSE IF fail \in {"progress_upload", "seen_upload"} THEN fail ELSE "none"
             \* with results: master, insert_df, progress, seen;
             \* without: seen, progress
             prog_written == IF has THEN f \notin {"master_upload", "insert_df"}
                             ELSE f # "seen_upload"
             prog_stored == prog_written /\ f # "progress_upload"
             seen_written == IF has THEN f \in {"none", "seen_upload"} ELSE TRUE
             seen_stored == seen_written /\ f # "seen_upload"
         IN  /\ tmp' = [tmp EXCEPT
                          !.master = IF has THEN Blob(Y_to_excel(combined)) ELSE @,
                          !.progress = IF prog_written THEN Blob(progress) ELSE @,
                          !.seen = IF seen_written THEN Blob(loc.seen) ELSE @]
             /\ gcs' = [gcs EXCEPT
                          !.master = IF has /\ f # "master_upload"
                                     THEN Blob(Y_to_excel(combined)) ELSE @,
                          !.progress = IF prog_stored THEN Blob(progress) ELSE @,
                          !.seen = IF seen_stored THEN Blob(loc.seen) ELSE @]
             /\ events' = IF has /\ f \notin {"master_upload", "insert_df"}
                          THEN insert_df(events, run_id, "yelp") ELSE events
             /\ loc' = [loc EXCEPT !.progress = IF prog_written THEN progress ELSE @]
             /\ pc' = IF f = "none" THEN "finish_ok" ELSE "except"
             /\ exc' = CASE f = "none" -> exc
                         [] f = "insert_df" -> "DbError"
                         [] OTHER -> "StorageError"
    /\ UNCHANGED <<job, runs, run_id, pre, rejected>>

(* ----------------------------- youtube.py ------------------------------ *)
YT_CATEGORIES == <<"Peptides", "Biohacking">>
YT_HISTORY_KEEP == 50

\* subset=["channel_url"]
YT_Keys(rows) == [k \in 1..Len(rows) |-> rows[k].channel_url]

\* pd.read_excel(OUTPUT_FILE)
YT_read_excel(file) ==
    [k \in 1..Len(file) |-> [file[k] EXCEPT !.channel_url = read_excel_cell(@)]]

\* df_all.to_excel(OUTPUT_FILE, index=False)
YT_to_excel(rows) ==
    [k \in 1..Len(rows) |-> [rows[k] EXCEPT !.channel_url = to_excel_cell(@)]]

RECURSIVE YT_insert(_, _)
YT_insert(r, sorted) ==
    IF sorted = <<>> THEN <<r>>
    ELSE IF Head(sorted).timestamp >= r.timestamp
         THEN <<Head(sorted)>> \o YT_insert(r, Tail(sorted))
         ELSE <<r>> \o sorted

RECURSIVE YT_sort_values(_)
\* df_all.sort_values(["timestamp"], ascending=False)
YT_sort_values(rows) ==
    IF rows = <<>> THEN <<>>
    ELSE YT_insert(rows[Len(rows)], YT_sort_values(SubSeq(rows, 1, Len(rows) - 1)))

\* main(), lines 275-282: df_all after the concat, the drop_duplicates and the sort
YT_merge(df_all, df_new) ==
    LET all1 == IF df_new # <<>> THEN concat(df_new, df_all) ELSE df_all
    IN  IF all1 # <<>> THEN YT_sort_values(drop_duplicates(all1, YT_Keys(all1)))
        ELSE all1

\* known = set(str(u) for u in df_all.get("channel_url", []) if str(u).strip())
YT_known(df_all) ==
    {IF r.channel_url = NaN THEN "nan" ELSE r.channel_url : r \in Range(df_all)}

\* what the two actor calls of one category can give: the channel urls found by
\* fetch_channels_for_hashtags and whether bulk_fetch_channel_details returns them
YT_Upstream ==
    {[raise |-> "videos", urls |-> <<>>, details |-> FALSE],
     [raise |-> "none", urls |-> <<>>, details |-> TRUE],
     [raise |-> "none", urls |-> <<"c1">>, details |-> TRUE],
     [raise |-> "none", urls |-> <<"c2", "c1">>, details |-> TRUE],
     [raise |-> "none", urls |-> <<"c2">>, details |-> FALSE],
     [raise |-> "channels", urls |-> <<"c1">>, details |-> FALSE]}

YT_InitLoc ==
    [df_all |-> <<>>, known |-> {}, loaded |-> {}, cat |-> 0, all_new |-> <<>>,
     fetched |-> <<>>]

\* main(), lines 220-230
YT_Load ==
    /\ job = "youtube" /\ pc = "load"
    /\ \E fail \in {"none", "master_download"} :
         LET mlocal == gcs_download_if_exists(tmp.master, gcs.master)
             df_all == IF mlocal.exists THEN YT_read_excel(mlocal.data) ELSE <<>>
         IN  IF fail = "master_download"
             THEN /\ pc' = "except" /\ exc' = "StorageError"
                  /\ UNCHANGED <<tmp, loc>>
             ELSE /\ tmp' = [tmp EXCEPT !.master = mlocal]
                  /\ loc' = [loc EXCEPT !.df_all = df_all, !.known = YT_known(df_all),
                                        !.loaded = YT_known(df_all)]
                  /\ pc' = "scrape" /\ exc' = exc
    /\ UNCHANGED <<job, runs, events, gcs, run_id, pre, rejected>>

\* main(), lines 246-258: one iteration of "for p in category_plan"
YT_Category ==
    /\ job = "youtube" /\ pc = "scrape"
    /\ \E up \in YT_Upstream :
         LET cat == loc.cat + 1
             new_urls == Filter(up.urls, loc.known)
             new_rows == IF up.details
                         THEN [k \in 1..Len(new_urls) |->
                                 [channel_url |-> new_urls[k], v |-> cat, timestamp |-> run_id]]
                         ELSE <<>>
         IN  IF up.raise = "videos" \/ (up.raise = "channels" /\ new_urls # <<>>)
             THEN /\ pc' = "except" /\ exc' = "UpstreamError"
                  /\ loc' = [loc EXCEPT !.cat = cat,
                                        !.fetched = IF up.raise = "channels"
                                                    THEN @ \o new_urls ELSE @]
             ELSE /\ loc' = [loc EXCEPT !.cat = cat, !.all_new = @ \o new_rows,
                                        !.known = @ \cup Range(new_urls),
                                        !.fetched = @ \o new_urls]
                  /\ pc' = IF cat = Len(YT_CATEGORIES) THEN "save" ELSE "scrape"
                  /\ exc' = exc
    /\ UNCHANGED <<job, runs, events, gcs, tmp, run_id, pre, rejected>>

\* history = history[-50:]
YT_last(history) ==
    IF Len(history) <= YT_HISTORY_KEEP THEN history
    ELSE SubSeq(history, Len(history) - YT_HISTORY_KEEP + 1, Len(history))

\* main(), lines 260-332: merge, output file, live rows, run history
YT_Save ==
    /\ job = "youtube" /\ pc = "save"
    /\ \E fail \in {"none", "master_upload", "insert_df", "insert_runs",
                    "history_download", "history_upload"} :
         LET df_new == loc.all_new
             df_all == YT_merge(loc.df_all, df_new)
             f == IF df_new = <<>> /\ fail = "insert_df" THEN "none" ELSE fail
             hlocal == gcs_download_if_exists(tmp.progress, gcs.progress)
             history == YT_last(Append(IF hlocal.exists THEN hlocal.data ELSE <<>>, run_id))
             rows_in == df_new # <<>> /\ f # "master_upload" /\ f # "insert_df"
             runs_in == f \notin {"master_upload", "insert_df", "insert_runs"}
             hist_loaded == runs_in /\ f # "history_download"
         IN  /\ tmp' = [tmp EXCEPT
                          !.master = Blob(YT_to_excel(df_all)),
                          !.progress = IF hist_loaded THEN Blob(history) ELSE @]
             /\ gcs' = [gcs EXCEPT
                          !.master = IF f # "master_upload" THEN Blob(YT_to_excel(df_all)) ELSE @,
                          !.progress = IF f = "none" THEN Blob(history) ELSE @]
             /\ events' = (IF rows_in THEN insert_df(events, run_id, "youtube_influencers")
                           ELSE events)
                          \cup (IF runs_in THEN {<<run_id, "runs">>} ELSE {})
             /\ loc' = [loc EXCEPT !.df_all = df_all]
             /\ pc' = IF f = "none" THEN "finish_ok" ELSE "except"
             /\ exc' = CASE f = "none" -> exc
                         [] f \in {"insert_df", "insert_runs"} -> "DbError"
                         [] OTHER -> "StorageError"
    /\ UNCHANGED <<job, runs, run_id, pre, rejected>>

(* ------------------------ instagram_combined.py ------------------------ *)
\* subset=["username"], after combined["username"].astype(str).str.strip()
IG_Keys(rows) == [k \in 1..Len(rows) |-> rows[k].username]

\* astype(str) of one cell
astype_str(c) == IF c = NaN THEN "nan" ELSE c

\* main(), lines 360-366: the combined frame
IG_merge(df_existing, df_final) ==
    LET combined == IF df_existing # <<>> THEN concat(df_final, df_existing) ELSE df_final
        stripped == [k \in 1..Len(combined) |->
                       [combined[k] EXCEPT !.username = astype_str(@)]]
    IN  drop_duplicates(stripped, IG_Keys(stripped))

\* main(), line 257, before the try: os.environ["RUN_ID"] = run_id with the int
\* that start_run returns raises TypeError (os.environ takes str only)
IG_SetEnv ==
    /\ job = "instagram" /\ pc = "load"
    /\ pc' = "done"
    /\ exc' = "TypeError"
    /\ UNCHANGED <<job, runs, events, gcs, tmp, run_id, loc, pre, rejected>>

(* ------------------------------ hunter.py ------------------------------ *)
\* A string is a sequence of tokens: "w", "W", "." and " " are single
\* characters, every other token is a run of characters that holds none of them
\* ("http://", "a", "com", "/x", "eb", ...; "web" is "w", "eb" and "n/a" is
\* "n", "/a").  None is the empty sequence.
None == <<>>

SchemeTokens == {"http://", "HTTP://", "https://"}

\* str.lower() of one token
LowerTok(t) ==
    CASE t = "W" -> "w"
      [] t = "HTTP://" -> "http://"
      [] t = "A" -> "a"
      [] OTHER -> t

LowerStr(s) == [k \in 1..Len(s) |-> LowerTok(s[k])]

RECURSIVE LStrip(_, _)
\* str.lstrip(chars): drop leading characters that are in chars
LStrip(s, chars) ==
    IF s # <<>> /\ Head(s) \in chars THEN LStrip(Tail(s), chars) ELSE s

RECURSIVE RStrip(_, _)
RStrip(s, chars) ==
    IF s # <<>> /\ s[Len(s)] \in chars THEN RStrip(SubSeq(s, 1, Len(s) - 1), chars) ELSE s

\* str.strip()
Strip(s) == RStrip(LStrip(s, {" "}), {" "})

RECURSIVE UpTo(_, _)
\* the part of s before the first token of stops
UpTo(s, stops) ==
    IF s = <<>> \/ Head(s) \in stops THEN <<>>
    ELSE <<Head(s)>> \o UpTo(Tail(s), stops)

SKIP_HOSTS ==
    {<<"facebook", ".", "com">>, <<"yelp", ".", "com">>,
     <<"w", "w", "w", ".", "facebook", ".", "com">>, <<"w", "w", "w", ".", "yelp", ".", "com">>}

\* to_domain(value), value already str()
to_domain(value) ==
    LET s0 == Strip(value)
        s1 == Strip(UpTo(s0, {" "}))
        s2 == IF s1 # <<>> /\ Head(s1) \in SchemeTokens THEN s1 ELSE <<"http://">> \o s1
        netloc == UpTo(Tail(s2), {"/", "/x", "/a", "?", "#"})
        host0 == LowerStr(Strip(netloc))
        host1 == UpTo(host0, {":"})
        host == LStrip(host1, {"w", "."})
    IN  IF s0 = <<>> \/ LowerStr(s0) \in {<<"nan">>, <<"none">>, <<"-">>, <<"null">>}
        THEN None
        ELSE IF host = <<>> THEN None
        ELSE IF host \in SKIP_HOSTS THEN None
        ELSE host

FINAL_STATUSES ==
    {"person_email_found", "generic_email_only", "no_emails_found",
     "skipped_blank_or_nonbusiness_url", "api_error"}

H_DefaultProgress == [processed_yelp_urls |-> {}, total_runs |-> 0, total_rows_enriched |-> 0]

H_Row(url, site) == [Yelp_URL |-> url, Website |-> site]

\* the Yelp files the operator can select
H_InputFiles ==
    {<<H_Row("u1", <<"a", ".", "com">>),
       H_Row("u2", <<"HTTP://", "W", "W", "W", ".", "A", ".", "com", "/x">>),
       H_Row("u3", <<"facebook", ".", "com", "/x">>)>>,
     <<H_Row("u1", <<"a", ".", "com">>),
       H_Row("u1", <<"b", ".", "com">>),
       H_Row("u2", <<"nan">>)>>}

\* what can happen to the input of one run
H_InputStates == {"ok", "unset", "not_found", "download_error", "no_website_col", "no_url_col"}

\* what the upstream can answer to one domain search: 200 with a personal
\* email, 200 without emails, 429, another status, or a failed request
H_Upstream == {"person", "none", "429", "500", "failed"}

\* hunter_domain_search with the 429 response left to the generic status branch
hunter_domain_search_generic(resp) ==
    CASE resp = "failed" -> [_error |-> "request_failed", data |-> ""]
      [] resp \in {"429", "500"} -> [_error |-> "http_" \o resp, data |-> ""]
      [] OTHER -> [_error |-> "", data |-> resp]

\* hunter_domain_search(domain, limit), lines 190-207: every failure is
\* returned as a value under "_error"
hunter_domain_search(resp) ==
    CASE resp = "failed" -> [_error |-> "request_failed", data |-> ""]
      [] resp = "429" -> [_error |-> "rate_limited_429", data |-> ""]
      [] resp # "429" /\ resp \notin {"person", "none"} ->
             [_error |-> "http_" \o resp, data |-> ""]
      [] OTHER -> [_error |-> "", data |-> resp]

\* row_already_done without the look-up in the processed urls
row_already_done_no_lookup(row, processed_urls) ==
    \/ row.hunter_status \in FINAL_STATUSES
    \/ (row.hunter_domain # None /\ row.hunter_status # "")

\* row_already_done(df, i, processed_urls)
row_already_done(row, processed_urls) ==
    LET yelp_url == row.Yelp_URL
        status == row.hunter_status
        domain == row.hunter_domain
    IN  \/ (yelp_url # "" /\ yelp_url \in processed_urls)
        \/ status \in FINAL_STATUSES
        \/ (domain # None /\ status # "")

H_InitLoc ==
    [df |-> <<>>, progress |-> H_DefaultProgress, processed_urls |-> {}, loaded |-> {},
     i |-> 0, cache |-> {}, enriched_now |-> 0, live_rows |-> 0,
     fetched |-> <<>>, handled |-> {}]

\* main(), lines 262-311: the input file, the output columns, the progress
H_Load ==
    /\ job = "hunter" /\ pc = "load"
    /\ \E inp \in H_InputStates, dl \in BOOLEAN :
         LET plocal == gcs_download_if_exists(tmp.progress, gcs.progress)
             progress == IF plocal.exists THEN plocal.data ELSE H_DefaultProgress
             df == [k \in 1..Len(gcs.input.data) |->
                      [Yelp_URL |-> gcs.input.data[k].Yelp_URL,
                       Website |-> gcs.input.data[k].Website,
                       hunter_domain |-> None, hunter_status |-> "",
                       hunter_error |-> ""]]
         IN  IF inp \in {"unset", "not_found", "no_website_col", "no_url_col"}
             THEN \* raise SystemExit(...)
                  /\ pc' = IF Caught("SystemExit") THEN "except" ELSE "done"
                  /\ exc' = "SystemExit"
                  /\ UNCHANGED <<tmp, loc>>
             ELSE IF inp = "download_error"
             THEN /\ pc' = "except" /\ exc' = "StorageError"
                  /\ UNCHANGED <<tmp, loc>>
             ELSE IF ~dl
             THEN /\ pc' = "except" /\ exc' = "StorageError"
                  /\ loc' = [loc EXCEPT !.df = df]
                  /\ UNCHANGED tmp
             ELSE /\ tmp' = [tmp EXCEPT !.progress = plocal]
                  /\ loc' = [loc EXCEPT !.df = df, !.progress = progress,
                                        !.processed_urls = progress.processed_yelp_urls,
                                        !.loaded = progress.processed_yelp_urls]
                  /\ pc' = IF df = <<>> THEN "save" ELSE "rows"
                  /\ exc' = exc
    /\ UNCHANGED <<job, runs, events, gcs, run_id, pre, rejected>>

\* the skipped row's url left out of the processed urls
H_mark_skipped_not(processed_urls, yelp_url) == processed_urls

\* main(), lines 330-331: if yelp_url: processed_urls.add(yelp_url)
H_mark_skipped(processed_urls, yelp_url) ==
    IF yelp_url # "" THEN processed_urls \cup {yelp_url} ELSE processed_urls

\* a run that keeps no cache
H_Cached_never(domain) == {}

\* main(), lines 348-352: the entry of the per-run cache for the domain
H_Cached(domain) == {c \in loc.cache : c[1] = domain}

\* main(), lines 318-414: one iteration of the loop over the rows
H_Enrich ==
    /\ job = "hunter" /\ pc = "rows"
    /\ \E up \in H_Upstream :
         LET i == loc.i + 1
             row == loc.df[i]
             yelp_url == row.Yelp_URL
             domain == to_domain(row.Website)
             hit == H_Cached(domain) # {}
             data == IF hit THEN (CHOOSE c \in H_Cached(domain) : TRUE)[2]
                     ELSE hunter_domain_search(up)
             status == CASE data._error # "" -> "api_error"
                         [] data.data = "person" -> "person_email_found"
                         [] OTHER -> "no_emails_found"
             next == IF i = Len(loc.df) THEN "save" ELSE "rows"
         IN  /\ pc' = next
             /\ IF row_already_done(row, loc.processed_urls)
                THEN loc' = [loc EXCEPT !.i = i]
                ELSE IF domain = None
                THEN loc' = [loc EXCEPT
                               !.i = i,
                               !.df[i].hunter_status = "skipped_blank_or_nonbusiness_url",
                               !.processed_urls = H_mark_skipped(@, yelp_url),
                               !.enriched_now = @ + 1,
                               !.live_rows = @ + 1,
                               !.handled = @ \cup {yelp_url}]
                ELSE loc' = [loc EXCEPT
                               !.i = i,
                               !.df[i].hunter_domain = domain,
                               !.df[i].hunter_status = status,
                               !.df[i].hunter_error = data._error,
                               !.cache = @ \cup {<<domain, data>>},
                               !.fetched = IF hit THEN @
                                           ELSE Append(@, [row |-> i, url |-> yelp_url,
                                                           domain |-> domain, resp |-> up,
                                                           again |-> yelp_url \in loc.handled,
                                                           done |-> yelp_url \in loc.processed_urls]),
                               !.processed_urls = IF data._error = "" /\ yelp_url # ""
                                                  THEN @ \cup {yelp_url} ELSE @,
                               !.enriched_now = @ + 1,
                               !.live_rows = @ + 1,
                               !.handled = @ \cup {yelp_url}]
    /\ UNCHANGED <<job, runs, events, gcs, tmp, run_id, exc, pre, rejected>>

\* main(), lines 416-436: output file, master, live rows, progress
H_Save ==
    /\ job = "hunter" /\ pc = "save"
    /\ \E fail \in {"none", "master_upload", "run_file_upload", "insert_df", "progress_upload"} :
         LET f == IF loc.live_rows = 0 /\ fail = "insert_df" THEN "none" ELSE fail
             progress == [processed_yelp_urls |-> loc.processed_urls,
                          total_runs |-> loc.progress.total_runs + 1,
                          total_rows_enriched |->
                              loc.progress.total_rows_enriched + loc.enriched_now]
             prog_written == f \in {"none", "progress_upload"}
         IN  /\ tmp' = [tmp EXCEPT !.master = Blob(loc.df),
                                   !.progress = IF prog_written THEN Blob(progress) ELSE @]
             /\ gcs' = [gcs EXCEPT !.master = IF f # "master_upload" THEN Blob(loc.df) ELSE @,
                                   !.progress = IF f = "none" THEN Blob(progress) ELSE @]
             /\ events' = IF loc.live_rows > 0 /\ prog_written
                          THEN insert_df(events, run_id, "hunter_enriched") ELSE events
             /\ loc' = [loc EXCEPT !.progress = IF prog_written THEN progress ELSE @]
             /\ pc' = IF f = "none" THEN "finish_ok" ELSE "except"
             /\ exc' = CASE f = "none" -> exc
                         [] f = "insert_df" -> "DbError"
                         [] OTHER -> "StorageError"
    /\ UNCHANGED <<job, runs, run_id, pre, rejected>>

(* ------------------- the frame every main() shares -------------------- *)
Source ==
    CASE job = "followers" -> "tiktok_followers"
      [] job = "instagram" -> "instagram_combined"
      [] OTHER -> job

InitLoc ==
    CASE job = "followers" -> F_InitLoc
      [] job = "maps" -> M_InitLoc
      [] job = "yelp" -> Y_InitLoc
      [] job = "youtube" -> YT_InitLoc
      [] job = "hunter" -> H_InitLoc
      [] OTHER -> [progress |-> F_DefaultProgress]

Stored(f) == gcs_download_if_exists(tmp[f], gcs[f])

\* run_id = start_run(source, label), before the try
StartRun ==
    /\ pc \in {"idle", "done"}
    /\ Len(runs) < MaxRuns
    /\ \E ok \in BOOLEAN :
         IF ok
         THEN /\ runs' = start_run(runs, Source)
              /\ run_id' = Len(runs) + 1
              /\ pc' = "load"
              /\ exc' = "none"
         ELSE /\ pc' = "done" /\ exc' = "DbError" /\ run_id' = 0
              /\ UNCHANGED runs
    /\ loc' = InitLoc
    /\ pre' = [f \in DOMAIN gcs |-> Stored(f)]
    /\ rejected' = FALSE
    /\ UNCHANGED <<job, events, gcs, tmp>>

FinishMeta == IF job = "maps" THEN "rows" ELSE "null"

\* the statements after finish_run(run_id, "ok") raising inside the try
AfterFinishOk_raises == "except"

\* the saving statements placed after finish_run(run_id, "ok")
AfterFinishOk_saves == "save"

\* after finish_run(run_id, "ok") main() returns
AfterFinishOk == "done"

\* a finish_run that keeps a failure of its UPDATE to itself
finish_run_swallowed(ok, e) == IF ok THEN e ELSE "none"

\* the exception in flight after a call of finish_run: finish_run catches
\* nothing, a failure of its UPDATE leaves it
finish_run_raises(ok, e) == IF ok THEN e ELSE "DbError"

\* finish_run(run_id, "ok", ...) inside the try, then main() returns
FinishOk ==
    /\ pc = "finish_ok"
    /\ \E ok \in BOOLEAN :
         IF ok
         THEN /\ runs' = finish_run(runs, run_id, "ok", FinishMeta)
              /\ pc' = AfterFinishOk
              /\ UNCHANGED <<exc, rejected>>
         ELSE /\ pc' = "except" /\ exc' = finish_run_raises(FALSE, exc) /\ rejected' = TRUE
              /\ UNCHANGED runs
    /\ UNCHANGED <<job, events, gcs, tmp, run_id, loc, pre>>

\* except Exception: finish_run(run_id, "error"); raise
Except ==
    /\ pc = "except"
    /\ \E ok \in BOOLEAN :
         IF ok
         THEN /\ runs' = finish_run(runs, run_id, "error", IF job = "maps" THEN "error" ELSE "null")
              /\ UNCHANGED <<exc, rejected>>
         ELSE /\ exc' = finish_run_raises(FALSE, exc) /\ rejected' = TRUE
              /\ UNCHANGED runs
    /\ pc' = "done"
    /\ UNCHANGED <<job, events, gcs, tmp, run_id, loc, pre>>

Files == {"progress", "master", "seen", "input"}

\* what a load gives when neither the blob nor the local file exists
Default(f) ==
    CASE f = "seen" -> {}
      [] f \in {"master", "input"} -> <<>>
      [] job = "maps" -> M_DefaultProgress
      [] job = "yelp" -> Y_DefaultProgress
      [] job = "hunter" -> H_DefaultProgress
      [] job = "youtube" -> <<>>
      [] OTHER -> F_DefaultProgress

Init ==
    /\ job \in Jobs
    /\ runs = <<>>
    /\ events = {}
    /\ \E file \in H_InputFiles :
         gcs = [f \in Files |-> IF f = "input" /\ job = "hunter" THEN Blob(file)
                                ELSE NoBlob(Default(f))]
    /\ tmp = [f \in Files |-> NoBlob(Default(f))]
    /\ pc = "idle"
    /\ run_id = 0
    /\ exc = "none"
    /\ loc = InitLoc
    /\ pre = [f \in Files |-> NoBlob(Default(f))]
    /\ rejected = FALSE

Next ==
    \/ StartRun
    \/ FinishOk
    \/ Except
    \/ F_Load
    \/ F_Submit
    \/ F_StartDelay
    \/ F_WorkerStart
    \/ F_WorkerFinish
    \/ F_Collect
    \/ F_AbortWait
    \/ F_Save
    \/ M_Load
    \/ M_Scrape
    \/ M_Save
    \/ Y_Load
    \/ Y_Scrape
    \/ Y_Save
    \/ YT_Load
    \/ YT_Category
    \/ YT_Save
    \/ IG_SetEnv
    \/ H_Load
    \/ H_Enrich
    \/ H_Save

Spec == Init /\ [][Next]_vars

(* ------------- the merge of the master files, on its own -------------- *)
\* longest dataset and longest batch the merge is applied to
MaxLen == 2

BSeq(S, n) == UNION {[1..k -> S] : k \in 0..n}

MergeJobs == {"maps", "yelp", "youtube", "instagram"}

\* rows of the master files and of the batches; v stands for the other columns
MergeRows(j, stamp) ==
    CASE j = "maps" ->
           {[Title |-> "t1", Phone |-> p, Website |-> "w", v |-> v,
             Scraped_Timestamp |-> stamp, Batch_City |-> ""] : p \in {"", "p"}, v \in 1..2}
      [] j = "yelp" ->
           {[Yelp_URL |-> u, v |-> v, Scraped_Date |-> stamp, Batch_City |-> ""] :
               u \in {"a", "b"}, v \in 1..3}
      [] j = "youtube" ->
           {[channel_url |-> u, v |-> v, timestamp |-> stamp] : u \in {"a", "b"}, v \in 1..2}
      [] OTHER ->
           {[username |-> u, v |-> v, processed_at |-> stamp] : u \in {"a", "b"}, v \in 1..2}

\* load_existing_output(): df["username"].astype(str).str.strip() after read_excel
IG_load_existing_output(file) ==
    [k \in 1..Len(file) |-> [file[k] EXCEPT !.username = astype_str(read_excel_cell(@))]]

\* the existing frame as each job loads it from its master file
MergeLoad(j, file) ==
    CASE j = "maps" -> M_read_excel(file)
      [] j = "yelp" -> Y_read_excel(file)
      [] j = "youtube" -> YT_read_excel(file)
      [] OTHER -> IG_load_existing_output(file)

\* the incoming rows as they enter the concat
MergeStamp(j, new, now) ==
    CASE j = "maps" -> M_stamp(new, "c", now)
      [] j = "yelp" -> Y_stamp(new, "c", now)
      [] OTHER -> new

MergeKeys(j, rows) ==
    CASE j = "maps" -> M_Keys(rows)
      [] j = "yelp" -> Y_Keys(rows)
      [] j = "youtube" -> YT_Keys(rows)
      [] OTHER -> IG_Keys(rows)

\* the merge each job performs
MergeOf(j, existing, new, now) ==
    CASE j = "maps" -> M_save_to_master(existing, new, "c", now)
      [] j = "yelp" -> Y_save_to_master(existing, new, "c", now)
      [] j = "youtube" -> YT_merge(existing, new)
      [] OTHER -> IG_merge(existing, new)

\* maps, yelp and instagram merge only a batch that has rows
InitMerge ==
    /\ job \in MergeJobs
    /\ runs = <<>> /\ events = {} /\ exc = "none" /\ rejected = FALSE
    /\ gcs = [f \in Files |-> NoBlob(Default(f))]
    /\ tmp = gcs /\ pre = gcs
    /\ run_id = 1
    /\ pc = "m_start"
    /\ \E file \in BSeq(MergeRows(job, 0), MaxLen),
          new \in BSeq(MergeRows(job, IF job \in {"maps", "yelp"} THEN 0 ELSE 1), MaxLen) :
         /\ job # "youtube" => new # <<>>
         /\ loc = [existing |-> MergeLoad(job, file), new |-> new,
                   result |-> <<>>, again |-> <<>>]

MergeOnce ==
    /\ pc = "m_start"
    /\ loc' = [loc EXCEPT !.result = MergeOf(job, loc.existing, loc.new, run_id)]
    /\ pc' = "m_once"
    /\ UNCHANGED <<job, runs, events, gcs, tmp, run_id, exc, pre, rejected>>

MergeAgain ==
    /\ pc = "m_once"
    /\ loc' = [loc EXCEPT !.again = MergeOf(job, loc.result, loc.new, run_id)]
    /\ pc' = "m_twice"
    /\ UNCHANGED <<job, runs, events, gcs, tmp, run_id, exc, pre, rejected>>

NextMerge ==
    \/ MergeOnce
    \/ MergeAgain

SpecMerge == InitMerge /\ [][NextMerge]_vars

(* ------------------------------ properties ----------------------------- *)
Merged == pc \in {"m_once", "m_twice"}
MergeD == loc.existing
MergeX == MergeStamp(job, loc.new, run_id)
KeysD == MergeKeys(job, MergeD)
KeysX == MergeKeys(job, MergeX)
KeysR == MergeKeys(job, loc.result)

\* the first row of rows whose key is key
FirstWith(rows, keys, key) ==
    rows[CHOOSE k \in 1..Len(rows) : keys[k] = key /\ \A j \in 1..(k - 1) : keys[j] # key]

\* C4: the merged dataset holds every identity key of the existing dataset or of
\* the batch exactly once and no other key, so it has at most |D| + |X| rows;
\* with an empty existing dataset it is the batch deduplicated against itself.
C4_MergeKeys ==
    Merged =>
      /\ \A i, j \in 1..Len(loc.result) : KeysR[i] = KeysR[j] => i = j
      /\ Range(KeysR) = Range(KeysD) \cup Range(KeysX)
      /\ Len(loc.result) <= Len(MergeD) + Len(MergeX)
      /\ MergeD = <<>> =>
            \A j \in 1..Len(loc.result) : loc.result[j] = FirstWith(MergeX, KeysX, KeysR[j])

C4_Witness ==
    /\ pc = "m_once"
    /\ Len(loc.result) < Len(MergeD) + Len(MergeX)
    /\ Range(KeysD) \ Range(KeysX) # {}
    /\ Range(KeysX) \ Range(KeysD) # {}

\* C5: for a key of the batch the kept row is the first incoming row with that
\* key, for a key only in the existing dataset the existing row is kept
\* unchanged; existing [{a,1}] with incoming [{a,2},{b,3}] gives a->2, b->3.
C5_NewestWins ==
    Merged =>
      /\ \A j \in 1..Len(loc.result) :
            IF KeysR[j] \in Range(KeysX)
            THEN loc.result[j] = FirstWith(MergeX, KeysX, KeysR[j])
            ELSE loc.result[j] = FirstWith(MergeD, KeysD, KeysR[j])
      /\ (/\ job = "yelp"
          /\ [k \in 1..Len(MergeD) |-> <<MergeD[k].Yelp_URL, MergeD[k].v>>] = << <<"a", 1>> >>
          /\ [k \in 1..Len(MergeX) |-> <<MergeX[k].Yelp_URL, MergeX[k].v>>]
                = << <<"a", 2>>, <<"b", 3>> >>)
         => {<<r.Yelp_URL, r.v>> : r \in Range(loc.result)} = {<<"a", 2>>, <<"b", 3>>}
            /\ Len(loc.result) = 2

C5_Witness ==
    /\ pc = "m_once" /\ job = "yelp"
    /\ [k \in 1..Len(MergeD) |-> <<MergeD[k].Yelp_URL, MergeD[k].v>>] = << <<"a", 1>> >>
    /\ [k \in 1..Len(MergeX) |-> <<MergeX[k].Yelp_URL, MergeX[k].v>>] = << <<"a", 2>>, <<"b", 3>> >>
    /\ Len(loc.result) = 2

RunOk == pc = "done" /\ run_id > 0 /\ runs[run_id].status = "ok"

\* the status scrape_one records for an outcome of the fetch
StatusOf(up) ==
    CASE up = "rows" -> "ok"
      [] up = "no_dataset" -> "no_dataset"
      [] OTHER -> "error"

FetchLoopOver == job = "followers" /\ loc.usernames # <<>> /\ loc.i >= Len(loc.usernames)

\* C1: in a followers run a target whose fetch raises gets the status error,
\* every target of every batch gets exactly one summary entry with the status of
\* its own fetch, and no exception of a fetch leaves the thread pool.
C1_FaultIsolation ==
    job = "followers" =>
      /\ exc # "FetchError"
      /\ \A e \in Range(loc.summary) : e.status \in {"ok", "no_dataset", "error"}
      /\ FetchLoopOver =>
           /\ Len(loc.summary) = Len(loc.usernames)
           /\ Cardinality(loc.ups) = Len(loc.usernames)
           /\ \A u \in Usernames, st \in {"ok", "no_dataset", "error"} :
                Cardinality({k \in 1..Len(loc.summary) :
                               loc.summary[k].source_username = u /\ loc.summary[k].status = st})
                  = Cardinality({x \in loc.ups :
                                   loc.usernames[x[1]] = u /\ StatusOf(x[2]) = st})

C1_Witness ==
    /\ FetchLoopOver /\ pc = "save"
    /\ Len(loc.usernames) = 4
    /\ <<1, "raise">> \in loc.ups /\ <<2, "rows">> \in loc.ups /\ <<3, "no_dataset">> \in loc.ups
    /\ \E k \in 1..4 : loc.summary[k].status = "error"
    /\ \E k \in 1..4 : loc.summary[k].status = "ok"

\* the processed set a stored state holds
Processed(store) ==
    CASE job = "hunter" -> store["progress"].data.processed_yelp_urls
      [] job = "followers" -> store["progress"].data.processed_usernames
      [] job = "yelp" -> store["seen"].data \cup Range(store["progress"].data.completed_cities)
      [] job = "maps" -> Range(store["progress"].data.completed_cities)
      [] OTHER -> {}

StoredNow == [f \in Files |-> Stored(f)]
ProcessedNow == Processed(StoredNow)

\* C2: the persisted processed set after a run that ended ok contains the set
\* persisted when the run started, and no step of any run shrinks it.
C2_ProcessedGrows ==
    /\ [](RunOk => Processed(pre) \subseteq ProcessedNow)
    /\ [][ProcessedNow \subseteq ProcessedNow']_vars

C2_Witness ==
    /\ RunOk /\ run_id = 2
    /\ Processed(pre) # {}
    /\ Processed(pre) # ProcessedNow
    /\ Processed(pre) \subseteq ProcessedNow

LoadedLower == {Lower(x) : x \in loc.loaded}

\* no fetch for a target of the processed set loaded at the start of the run
C3_NoFetchOfLoaded ==
    /\ job = "followers" => \A k \in 1..Len(loc.fetched) : Lower(loc.fetched[k]) \notin LoadedLower
    /\ job = "hunter" => \A k \in 1..Len(loc.fetched) : loc.fetched[k].url \notin loc.loaded

\* C3 (as stated): no fetch for a target whose key is in the processed set loaded
\* at the start of the run, and in a hunter run no fetch for a row whose Yelp
\* URL an earlier row of the same run already handled.
C3_NoRefetchOfHandled ==
    /\ C3_NoFetchOfLoaded
    /\ job = "hunter" => \A k \in 1..Len(loc.fetched) : ~loc.fetched[k].again

\* C3 (amended): no fetch for a target whose key is in the processed set loaded
\* at the start of the run, and in a hunter run no fetch for a row whose Yelp
\* URL an earlier row of the same run added to the processed set.
C3_NoRefetchOfProcessed ==
    /\ C3_NoFetchOfLoaded
    /\ job = "hunter" => \A k \in 1..Len(loc.fetched) : ~loc.fetched[k].done

C3_Witness ==
    \/ /\ job = "followers" /\ pc = "save"
       /\ loc.loaded # {}
       /\ \E k \in 1..Len(loc.targets) : Lower(loc.targets[k]) \in LoadedLower
       /\ loc.fetched # <<>>
    \/ /\ job = "hunter" /\ pc = "save"
       /\ \E k \in 2..Len(loc.df) :
            /\ loc.df[k].Yelp_URL \in loc.processed_urls \ loc.loaded
            /\ loc.df[k].hunter_status = ""
            /\ to_domain(loc.df[k].Website) # None
       /\ loc.fetched # <<>>

MasterJobs == {"maps", "yelp", "youtube", "instagram"}
MasterRows == Stored("master").data

MasterKey(r) ==
    CASE job = "maps" -> M_Key(r)
      [] job = "yelp" -> r.Yelp_URL
      [] job = "youtube" -> r.channel_url
      [] OTHER -> r.username

Stamp(r) ==
    CASE job = "maps" -> r.Scraped_Timestamp
      [] job = "yelp" -> r.Scraped_Date
      [] job = "youtube" -> r.timestamp
      [] OTHER -> r.processed_at

\* a step keeps every stored row or replaces it by a fresher row with its key
MasterStep ==
    job \in MasterJobs =>
       \A r \in Range(MasterRows) :
          \E r2 \in Range(MasterRows') :
             /\ MasterKey(r2) = MasterKey(r)
             /\ (r2 = r \/ Stamp(r2) > Stamp(r))

C8_EnrichmentKept ==
    job = "hunter" =>
      \A r \in Range(pre["master"].data) :
         r.hunter_status # "" =>
            \E r2 \in Range(MasterRows) :
               /\ r2.Yelp_URL = r.Yelp_URL /\ r2.Website = r.Website
               /\ r2.hunter_status = r.hunter_status
               /\ r2.hunter_domain = r.hunter_domain

Terminal(r) == r.status \in {"ok", "error"}

\* a step leaves the terminal records alone and adds records as running
RunsStep ==
    /\ \A id \in DOMAIN runs :
          /\ id \in DOMAIN runs'
          /\ Terminal(runs[id]) => runs'[id] = runs[id]
    /\ \A id \in DOMAIN runs' \ DOMAIN runs :
          runs'[id].status = "running" /\ runs'[id].finished_at = 0

\* C9: a run record is created with status running, its status changes at most
\* once, to ok or to error, and a record with status ok or error is never
\* written again.
C9_RunRecordOnce ==
    /\ [](\A id \in DOMAIN runs :
            /\ runs[id].finished_at <= 1
            /\ runs[id].status = "running" <=> runs[id].finished_at = 0
            /\ runs[id].status \in {"running", "ok", "error"})
    /\ [][RunsStep]_vars

C9_Witness ==
    /\ Len(runs) = 2 /\ pc = "done"
    /\ runs[1].status = "ok" /\ runs[1].finished_at = 1
    /\ runs[2].status = "error" /\ runs[2].finished_at = 1

\* C10 (as stated): when main has returned or raised and the store accepted
\* every finish_run, the run record has status ok or error.
C10_NoRunLeftRunning ==
    (pc = "done" /\ run_id > 0 /\ ~rejected) => Terminal(runs[run_id])

\* the run stopped on a missing input: ValueError (followers, maps) or SystemExit (hunter)
MissingInput == exc \in {"ValueError", "SystemExit"}

\* C11 (as stated): a run that stops on a missing input has issued no upstream
\* fetch, leaves the persisted progress as it was and ends with status error.
C11_MissingInputEndsError ==
    (pc = "done" /\ run_id > 0 /\ ~rejected /\ MissingInput) =>
       /\ loc.fetched = <<>>
       /\ Stored("progress") = pre["progress"]
       /\ runs[run_id].status = "error"

ItemJobs == {"maps", "yelp", "youtube", "hunter"}

\* an upstream call of the current run failed
UpstreamFailed ==
    CASE job = "yelp" -> loc.failed # {}
      [] job = "hunter" -> \E k \in 1..Len(loc.df) : loc.df[k].hunter_status = "api_error"
      [] OTHER -> exc = "UpstreamError"

\* the run went through every keyword, category or row
AllItemsDone ==
    CASE job = "maps" -> Len(loc.fetched) = Len(loc.keywords)
      [] job = "yelp" -> Len(loc.fetched) = Len(loc.keywords)
      [] job = "youtube" -> loc.cat = Len(YT_CATEGORIES)
      [] OTHER -> loc.i = Len(loc.df)

\* C12 (as stated): in maps, yelp, youtube and hunter a failed upstream call
\* does not abort the run: with no storage or database failure the run still
\* goes through its remaining items and ends with status ok.
C12_UpstreamFailureAbsorbed ==
    (/\ job \in ItemJobs /\ pc = "done" /\ run_id > 0 /\ ~rejected
     /\ UpstreamFailed /\ exc \in {"none", "UpstreamError"}) =>
       /\ AllItemsDone
       /\ runs[run_id].status = "ok"

\* insert_df raised in the current run and every finish_run was accepted
InsertDfRaised == run_id > 0 /\ ~rejected /\ exc = "DbError"

\* C13 (as stated): a failure of insert_df does not abort the harvest: the run
\* still persists its progress and ends with status ok.
C13_InsertFailureAbsorbed ==
    (pc = "done" /\ InsertDfRaised) =>
       /\ runs[run_id].status = "ok"
       /\ Stored("progress") # pre["progress"]

\* a step of the save that writes the local master file and fails to upload it
MasterUploadFails ==
    /\ pc = "save"
    /\ tmp'["master"] # tmp["master"]
    /\ gcs'["master"] = gcs["master"]
    /\ tmp'["master"] # gcs'["master"]

MasterUploadStep ==
    MasterUploadFails =>
       /\ StoredNow'["progress"] = StoredNow["progress"]
       /\ StoredNow'["seen"] = StoredNow["seen"]
       /\ pc' = "except"

\* C14: a run whose upload of the master fails goes to its error handler
\* without writing the progress (in yelp: neither the progress nor the seen
\* urls), so what the next run loads is what this run loaded.
C14_MasterFailureKeepsProgress ==
    /\ [][MasterUploadStep]_vars
    /\ []((pc \in {"except", "done"} /\ run_id > 0 /\ runs[run_id].status # "ok"
           /\ tmp["master"] # gcs["master"] /\ tmp["master"] # pre["master"]
           /\ exc = "StorageError" /\ ~rejected /\ job \in {"maps", "yelp", "hunter"})
          => (StoredNow["progress"] = pre["progress"] /\ StoredNow["seen"] = pre["seen"]))

C14_Witness ==
    /\ job \in {"maps", "yelp", "hunter"} /\ pc = "done" /\ run_id = 2
    /\ runs[2].status = "error" /\ exc = "StorageError"
    /\ tmp["master"].exists /\ tmp["master"] # gcs["master"] /\ tmp["master"] # pre["master"]
    /\ pre["progress"].exists
    /\ StoredNow["progress"] = pre["progress"]

\* the rows of the input whose website gives no domain
NoDomainRows == {k \in 1..Len(loc.df) : to_domain(loc.df[k].Website) = None}

\* C15: in hunter no upstream call is ever issued for a row whose website gives
\* no domain; once the loop has passed such a row its Yelp URL is in the
\* processed set, the row having got the status
\* skipped_blank_or_nonbusiness_url unless its URL was processed before; and
\* when the run ends ok the URL is in the persisted processed set.
C15_NoDomainRowsSkipped ==
    job = "hunter" =>
      /\ \A k \in 1..Len(loc.fetched) : loc.fetched[k].row \notin NoDomainRows
      /\ \A k \in NoDomainRows :
           k <= loc.i =>
             /\ loc.df[k].Yelp_URL \in loc.processed_urls
             /\ \/ loc.df[k].hunter_status = "skipped_blank_or_nonbusiness_url"
                \/ /\ loc.df[k].hunter_status = ""
                   /\ loc.df[k].Yelp_URL \in
                         loc.loaded \cup {loc.df[j].Yelp_URL : j \in 1..(k - 1)}
      /\ RunOk =>
           \A k \in NoDomainRows :
              loc.df[k].Yelp_URL \in StoredNow["progress"].data.processed_yelp_urls

C15_Witness ==
    /\ job = "hunter" /\ RunOk /\ run_id = 2
    /\ \E k \in NoDomainRows :
          /\ loc.df[k].Yelp_URL \in loc.loaded
          /\ loc.df[k].hunter_status = ""
          /\ \E r \in Range(pre["master"].data) :
                /\ r.Yelp_URL = loc.df[k].Yelp_URL
                /\ r.hunter_status = "skipped_blank_or_nonbusiness_url"

\* the calls of the current batch that a worker has started
F_Started == {k \in 1..Len(loc.futs) : loc.futs[k].st # "queued"}

\* C16: in a followers run a fetch of a batch is started only after every
\* fetch of the batches before it has completed and the orchestrator has
\* recorded its result.
C16_BatchBarrier ==
    (job = "followers" /\ F_Started # {}) =>
       /\ \A p \in 1..loc.i : \E up \in Upstream : <<p, up>> \in loc.ups
       /\ Len(loc.summary) >= loc.i
       /\ Len(loc.fetched) <= loc.i + Len(loc.futs)

C16_Witness ==
    /\ job = "followers" /\ pc = "collect"
    /\ loc.i = BATCH_SIZE
    /\ \E k \in 1..Len(loc.futs) : loc.futs[k].st = "running"
    /\ Len(loc.summary) = BATCH_SIZE

\* the upstream outcomes recorded for the target at position p of the run's list
F_OutcomesAt(p) == {up \in Upstream : <<p, up>> \in loc.ups}

\* C17: a followers run cuts its target list, in order, into batches of at
\* most BATCH_SIZE targets, every target lies in exactly one batch (it is
\* fetched once, at its position), and at every moment at most
\* PARALLEL_USERS fetches are running.
C17_BatchesAndPoolCap ==
    job = "followers" =>
       /\ Cardinality(F_Running) <= PARALLEL_USERS
       /\ Len(loc.futs) <= BATCH_SIZE
       /\ loc.i % BATCH_SIZE = 0
       /\ loc.futs # <<>> => loc.i + Len(loc.futs) <= Len(loc.usernames)
       /\ loc.fetched = SubSeq(loc.usernames, 1, Len(loc.fetched))
       /\ Len(loc.fetched) = Min(loc.i, Len(loc.usernames)) + Cardinality(F_Started)
       /\ \A p \in 1..Len(loc.usernames) : Cardinality(F_OutcomesAt(p)) <= 1
       /\ pc = "save" =>
            /\ loc.fetched = loc.usernames
            /\ \A p \in 1..Len(loc.usernames) : Cardinality(F_OutcomesAt(p)) = 1

C17_Witness ==
    /\ job = "followers"
    /\ Len(loc.futs) = BATCH_SIZE
    /\ Cardinality(F_Running) = PARALLEL_USERS
    /\ F_Queued # {}

\* C18: in a followers run no two scrape_one calls that are running at the
\* same time write the same output folder (and so the same followers.csv).
C18_NoSharedFolder ==
    job = "followers" =>
       \A k \in F_Running : \A m \in F_Running :
          k # m => F_folder(F_Batch[k]) # F_folder(F_Batch[m])

\* the upstream outcome of the fetch of the target at position p
F_Outcome(p) == CHOOSE up \in Upstream : <<p, up>> \in loc.ups

\* the result of the target at position p, by its outcome alone
F_ResultAt(p) == scrape_one(loc.usernames[p], F_Outcome(p))

\* the summary entries and the processed names the outcomes of the targets determine
F_SummaryByOutcome ==
    {[run_id |-> run_id, source_username |-> loc.usernames[p], status |-> F_ResultAt(p).status] :
        p \in 1..Len(loc.usernames)}

F_ProcessedByOutcome ==
    loc.loaded \cup
    {loc.usernames[p] : p \in {q \in 1..Len(loc.usernames) :
                                  F_ResultAt(q).status \in {"ok", "no_dataset"}}}

\* C19: when the batches of a followers run are over, the set of summary
\* entries, and after the save the persisted processed_usernames, are the ones
\* the per-target outcomes determine, whatever the order the fetches of a
\* batch completed in.
C19_OrderIndependent ==
    /\ (job = "followers" /\ pc = "save") =>
          /\ Range(loc.summary) = F_SummaryByOutcome
          /\ Range(loc.processed_now) \cup loc.loaded = F_ProcessedByOutcome
    /\ (job = "followers" /\ RunOk /\ loc.usernames # <<>>) =>
          /\ Range(loc.summary) = F_SummaryByOutcome
          /\ StoredNow["progress"].data.processed_usernames = F_ProcessedByOutcome

\* a run that ended ok and collected the third target of its first batch first
C19_Witness ==
    /\ job = "followers" /\ RunOk
    /\ loc.usernames = <<"bo", "bo", "al", "Al">>
    /\ loc.summary[1].source_username = "al"
    /\ loc.summary[1].status = "ok"
    /\ F_Outcome(1) = "raise" /\ F_Outcome(2) = "no_dataset"
    /\ F_Outcome(4) = "raise"
    /\ StoredNow["progress"].data.processed_usernames = {"bo", "al"}

(* --------- two executions of one job sharing the progress object -------- *)
\* Cloud Run executions of the same job: each has its own memory and local
\* file, the progress object in the bucket is the only thing they share.
MaxOverlapRuns == 2

Execs == {1, 2}
OverlapJobs == {"hunter", "maps"}

\* the keys a run can add: Yelp URLs of processed rows, or the city it completed
O_Keys == IF job = "hunter" THEN {"u1", "u2"} ELSE Range(M_CITIES)

O_DefaultProgress == IF job = "hunter" THEN H_DefaultProgress ELSE M_DefaultProgress

\* load_progress() that starts from the default state whatever the file holds
O_load_progress_default(local) == O_DefaultProgress

\* load_progress(): json.load of the local file after the download, else the default
O_load_progress(local) == IF local.exists THEN local.data ELSE O_DefaultProgress

\* save_progress(p): the object after gcs_upload, the whole file replacing it
O_save_progress(blob, p) == Blob(p)

\* the processed set a progress state holds
O_KeysOf(p) == IF job = "hunter" THEN p.processed_yelp_urls ELSE Range(p.completed_cities)

\* processed_urls.add(yelp_url), or the city marked completed
O_add(p, key) ==
    IF job = "hunter" THEN [p EXCEPT !.processed_yelp_urls = @ \cup {key}]
    ELSE M_mark_city(p, key)

O_Active == {e \in Execs : loc.ex[e].pc # "idle"}

InitOverlap ==
    /\ job \in OverlapJobs
    /\ runs = <<>> /\ events = {} /\ exc = "none" /\ rejected = FALSE
    /\ gcs = [f \in Files |-> NoBlob(Default(f))]
    /\ tmp = gcs /\ pre = gcs
    /\ run_id = 0
    /\ pc = "overlap"
    /\ loc = [ex |-> [e \in Execs |->
                        [pc |-> "idle", local |-> NoBlob(O_DefaultProgress),
                         progress |-> O_DefaultProgress, added |-> {}, n |-> 0]],
              saved |-> {}, overlapped |-> FALSE]

\* progress = load_progress(), at the start of main()
O_Load(e) ==
    /\ pc = "overlap"
    /\ loc.ex[e].pc = "idle"
    /\ loc.ex[e].n < MaxOverlapRuns
    /\ LET local == gcs_download_if_exists(loc.ex[e].local, gcs.progress)
       IN  loc' = [loc EXCEPT !.ex[e] = [@ EXCEPT !.pc = "loaded", !.local = local,
                                                  !.progress = O_load_progress(local),
                                                  !.added = {}],
                              !.overlapped = @ \/ O_Active # {}]
    /\ UNCHANGED <<job, runs, events, gcs, tmp, pc, run_id, exc, pre, rejected>>

\* the run handles a target that its loaded state does not hold
O_Work(e) ==
    /\ pc = "overlap"
    /\ loc.ex[e].pc = "loaded"
    /\ job = "maps" => loc.ex[e].added = {}
    /\ \E key \in O_Keys \ O_KeysOf(loc.ex[e].progress) :
         loc' = [loc EXCEPT !.ex[e].progress = O_add(@, key),
                            !.ex[e].added = @ \cup {key}]
    /\ UNCHANGED <<job, runs, events, gcs, tmp, pc, run_id, exc, pre, rejected>>

\* save_progress(progress) at the end of main(); the run is over
O_Save(e) ==
    /\ pc = "overlap"
    /\ loc.ex[e].pc = "loaded"
    /\ LET p == [loc.ex[e].progress EXCEPT !.total_runs = @ + 1]
       IN  /\ gcs' = [gcs EXCEPT !.progress = O_save_progress(@, p)]
           /\ loc' = [loc EXCEPT !.ex[e] = [@ EXCEPT !.pc = "idle", !.local = Blob(p),
                                                      !.progress = p, !.n = @ + 1],
                                  !.saved = @ \cup loc.ex[e].added]
    /\ UNCHANGED <<job, runs, events, tmp, pc, run_id, exc, pre, rejected>>

NextOverlap ==
    \/ \E e \in Execs : O_Load(e)
    \/ \E e \in Execs : O_Work(e)
    \/ \E e \in Execs : O_Save(e)

SpecOverlap == InitOverlap /\ [][NextOverlap]_vars

\* the keys the persisted progress holds
O_Persisted == O_KeysOf(gcs.progress.data)

\* a step that changes the progress object puts one run's own copy in its place
O_OverwriteStep ==
    gcs'.progress # gcs.progress =>
       \E e \in Execs :
          /\ loc.ex[e].pc = "loaded"
          /\ gcs'.progress = Blob([loc.ex[e].progress EXCEPT !.total_runs = @ + 1])

\* C20: as long as no run of the job started while another one was between
\* its load and its save, every key a finished run added is in the persisted
\* ProgressState; a save replaces the persisted state by the saving run's own
\* copy, whatever the object held, so that after an overlap a key one run
\* added can be missing once both have finished.
C20_NoLossWithoutOverlap ==
    /\ [](~loc.overlapped => loc.saved \subseteq O_Persisted)
    /\ [][O_OverwriteStep]_vars

\* two runs overlapped, both have finished, and a key one of them added is gone
C20_Witness ==
    /\ pc = "overlap"
    /\ loc.overlapped
    /\ O_Active = {}
    /\ loc.saved \ O_Persisted # {}

(* ------------- successive runs of maps or yelp and the cursor ---------- *)
\* The part of main() of maps.py and yelp.py that reads and writes the
\* progress, run after run; hist lists the runs that are over.
MaxCursorRuns == 4

CursorJobs == {"maps", "yelp"}

C_CITIES == IF job = "maps" THEN M_CITIES ELSE Y_CITIES

C_DefaultProgress == IF job = "maps" THEN M_DefaultProgress ELSE Y_DefaultProgress

\* load_progress(): the local file after the download, parsed
C_load_progress(local) == IF local.exists THEN local.data ELSE C_DefaultProgress

C_get_next_city(progress) ==
    IF job = "maps" THEN M_get_next_city(progress) ELSE Y_get_next_city(progress)

\* the city main() settles on
C_city(use_progress, selected_city, progress) ==
    IF job = "maps" THEN M_current_city(use_progress, selected_city, progress)
    ELSE Y_city(use_progress, selected_city, progress)

\* the progress main() saves after the crawl
C_saved_progress(progress, city, has_rows) ==
    IF job = "yelp" THEN Y_mark_city(progress, city)
    ELSE LET marked == M_mark_city(progress, city)
         IN  IF has_rows THEN [marked EXCEPT !.total_runs = @ + 1] ELSE marked

InitCursor ==
    /\ job \in CursorJobs
    /\ runs = <<>> /\ events = {} /\ exc = "none" /\ rejected = FALSE
    /\ gcs = [f \in Files |-> NoBlob(Default(f))]
    /\ tmp = gcs /\ pre = gcs
    /\ run_id = 0
    /\ pc = "cursor"
    /\ loc = [st |-> "idle", progress |-> C_DefaultProgress, city |-> "None",
              use_progress |-> FALSE, selected_city |-> "None", hist |-> <<>>]

\* main() up to the choice of the city
C_Begin ==
    /\ pc = "cursor" /\ loc.st = "idle"
    /\ Len(loc.hist) < MaxCursorRuns
    /\ \E use_progress \in BOOLEAN, selected_city \in {"None"} \cup Range(C_CITIES) :
         LET local == gcs_download_if_exists(tmp.progress, gcs.progress)
             progress == C_load_progress(local)
             city == C_city(use_progress, selected_city, progress)
         IN  /\ tmp' = [tmp EXCEPT !.progress = local]
             /\ IF city = "None"
                THEN \* raise ValueError("selected_city is required when use_progress=False")
                     loc' = [loc EXCEPT !.progress = progress,
                                        !.hist = Append(@, [city |-> "None", resume |-> FALSE,
                                                            ok |-> FALSE])]
                ELSE loc' = [loc EXCEPT !.st = "crawl", !.progress = progress, !.city = city,
                                        !.use_progress = use_progress,
                                        !.selected_city = selected_city]
    /\ UNCHANGED <<job, runs, events, gcs, pc, run_id, exc, pre, rejected>>

\* the crawl of the city and the rest of main(): a failure ahead of
\* save_progress leaves the progress as it was
C_End ==
    /\ pc = "cursor" /\ loc.st = "crawl"
    /\ \E out \in {"rows", "no_rows", "raise"} :
         LET progress == C_saved_progress(loc.progress, loc.city, out = "rows")
             done == [city |-> loc.city, resume |-> loc.use_progress, ok |-> out # "raise"]
             loc1 == [loc EXCEPT !.st = "idle", !.city = "None", !.use_progress = FALSE,
                                 !.selected_city = "None", !.hist = Append(@, done)]
         IN  IF out = "raise"
             THEN /\ loc' = loc1
                  /\ UNCHANGED <<tmp, gcs>>
             ELSE /\ loc' = [loc1 EXCEPT !.progress = progress]
                  /\ tmp' = [tmp EXCEPT !.progress = Blob(progress)]
                  /\ gcs' = [gcs EXCEPT !.progress = Blob(progress)]
    /\ UNCHANGED <<job, runs, events, pc, run_id, exc, pre, rejected>>

NextCursor ==
    \/ C_Begin
    \/ C_End

SpecCursor == InitCursor /\ [][NextCursor]_vars

\* every run so far was a resume run that ended ok
C_OnlyResumeOk == \A k \in 1..Len(loc.hist) : loc.hist[k].resume /\ loc.hist[k].ok

\* the cities of the list that the loaded progress does not list as completed
C_Open == {k \in 1..Len(C_CITIES) : C_CITIES[k] \notin Range(loc.progress.completed_cities)}

\* C21: the cursor of a resume run is the first city of the list that is not
\* in completed_cities, and the first n successive successful resume runs
\* from an empty ProgressState (n up to the length of the list) crawl the
\* first n cities of the list, in list order, each once.
C21_CursorInListOrder ==
    /\ (loc.st = "crawl" /\ loc.use_progress /\ C_Open # {}) =>
          \E k \in C_Open : /\ loc.city = C_CITIES[k]
                            /\ \A j \in 1..(k - 1) : j \notin C_Open
    /\ (C_OnlyResumeOk /\ Len(loc.hist) <= Len(C_CITIES)) =>
          \A k \in 1..Len(loc.hist) : loc.hist[k].city = C_CITIES[k]

C21_Witness ==
    /\ pc = "cursor" /\ loc.st = "idle"
    /\ C_OnlyResumeOk
    /\ Len(loc.hist) = Len(C_CITIES)
    /\ Range(loc.progress.completed_cities) = Range(C_CITIES)

\* C22: successive successful resume runs go through the list again and
\* again: the k-th of them crawls the city at position k modulo the length of
\* the list, so that the runs after the wrap follow the list order too.
C22_FullCycleAfterWrap ==
    (C_OnlyResumeOk /\ Len(loc.hist) <= 2 * Len(C_CITIES)) =>
       \A k \in 1..Len(loc.hist) :
          loc.hist[k].city = C_CITIES[((k - 1) % Len(C_CITIES)) + 1]

\* C23: in maps and yelp, with the resume flag set the city of the run is
\* get_next_city(progress) whatever selected_city is; without it the city is
\* the explicitly selected one.
C23_ResumeFlagDecidesCity ==
    (pc = "cursor" /\ loc.st = "crawl") =>
       /\ loc.use_progress => loc.city = C_get_next_city(loc.progress)
       /\ (~loc.use_progress /\ loc.selected_city # "None") => loc.city = loc.selected_city

\* a resume run given an explicit city that is not the one of the cursor
C23_Witness ==
    /\ pc = "cursor" /\ loc.st = "crawl"
    /\ loc.use_progress
    /\ loc.selected_city \notin {"None", loc.city}
    /\ loc.progress.completed_cities # <<>>

\* the start of main() of a job whose first step loads the progress
LoadNeverFailsStep ==
    (pc = "load" /\ job \in {"followers", "maps", "yelp"}) =>
       ~(pc' = "except" /\ exc' = "StorageError")

\* C24: loading the progress never fails the run: whatever the state of the
\* persisted object, the step that loads it does not raise.
C24_LoadNeverFailsRun == [][LoadNeverFailsStep]_vars

(* ------------------- to_domain over the forms of a URL ----------------- *)
\* the largest number of spaces on a side and of leading "www." of an input
MaxPad == 1
MaxWww == 1

D_Hosts ==
    {<<"a", ".", "com">>, <<"A", ".", "com">>, <<"w", "eb", ".", "com">>,
     <<"facebook", ".", "com">>, <<"yelp", ".", "com">>}

D_Placeholders == {<<>>, <<" ">>, <<"nan">>, <<"-">>, <<"n", "/a">>}

D_Schemes == {<<>>, <<"http://">>, <<"HTTP://">>, <<"https://">>}
D_Www == {<<"w", "w", "w", ".">>, <<"W", "W", "W", ".">>}
D_Ports == {<<>>, <<":", "80">>}
D_Paths == {<<>>, <<"/">>, <<"/x">>}

RECURSIVE D_Rep(_, _)
\* n copies of s
D_Rep(s, n) == IF n = 0 THEN <<>> ELSE s \o D_Rep(s, n - 1)

\* a cell of the Website column: a placeholder, or a URL of host h in one of its forms
D_Inputs ==
    {[kind |-> "placeholder", value |-> v, h |-> None, www |-> 0] : v \in D_Placeholders} \cup
    {[kind |-> "url", h |-> h, www |-> n,
      value |-> D_Rep(<<" ">>, l) \o sch \o D_Rep(w, n) \o h \o port \o path \o D_Rep(<<" ">>, r)] :
        h \in D_Hosts, n \in 0..MaxWww, l \in 0..MaxPad, r \in 0..MaxPad,
        sch \in D_Schemes, w \in D_Www, port \in D_Ports, path \in D_Paths}

InitDomain ==
    /\ job = "hunter"
    /\ runs = <<>> /\ events = {} /\ exc = "none" /\ rejected = FALSE
    /\ gcs = [f \in Files |-> NoBlob(Default(f))]
    /\ tmp = gcs /\ pre = gcs
    /\ run_id = 0
    /\ pc = "d_start"
    /\ \E inp \in D_Inputs : loc = [inp |-> inp, out |-> None, again |-> None]

\* domain = to_domain(row[website_col])
D_Apply ==
    /\ pc = "d_start"
    /\ loc' = [loc EXCEPT !.out = to_domain(loc.inp.value)]
    /\ pc' = "d_once"
    /\ UNCHANGED <<job, runs, events, gcs, tmp, run_id, exc, pre, rejected>>

\* to_domain of a value that to_domain returned
D_Again ==
    /\ pc = "d_once"
    /\ loc' = [loc EXCEPT !.again = to_domain(loc.out)]
    /\ pc' = "d_twice"
    /\ UNCHANGED <<job, runs, events, gcs, tmp, run_id, exc, pre, rejected>>

NextDomain ==
    \/ D_Apply
    \/ D_Again

SpecDomain == InitDomain /\ [][NextDomain]_vars

\* the host of the deny list that h is, with or without "www."
D_Denied(h) == LowerStr(h) \in SKIP_HOSTS

\* h in lower case behind what is left of the leading "www." after one is removed
D_Key(inp) ==
    LowerStr(D_Rep(<<"w", "w", "w", ".">>, IF inp.www > 0 THEN inp.www - 1 ELSE 0) \o inp.h)

\* C25: for a host h off the deny list, every form of h (spaces around it,
\* upper or lower case, a scheme, a port, a path, one leading "www.") gives
\* the key that is h in lower case with no other character removed, and
\* to_domain of that key is the key.
C25_OneKeyPerHost ==
    (pc \in {"d_once", "d_twice"} /\ loc.inp.kind = "url" /\ ~D_Denied(loc.inp.h)) =>
       /\ loc.out = D_Key(loc.inp)
       /\ pc = "d_twice" => loc.again = loc.out

\* C26: to_domain gives None for a missing or blank value, for each
\* placeholder value and for every URL whose host is on the deny list, with
\* or without a leading "www.".
C26_NoneForNoIdentity ==
    (pc \in {"d_once", "d_twice"} /\
     (loc.inp.kind = "placeholder" \/ D_Denied(loc.inp.h))) => loc.out = None

(* --------------- the scores of youtube.py and instagram ---------------- *)
\* Numbers are exact: an audience score is counted in units of 1/9000000, a
\* rate and a final score in hundredths, a rounded score in thousandths.
ScoreOne == 9000000

\* the largest count of likes, comments, views or videos of an input
MaxCount == 3

ScoreJobs == {"youtube", "instagram"}

\* audience sizes at and around the edges of the bands
AudienceSizes == {0, 1, 500, 1000, 1001, 10000, 10001, 100000, 100001, 1100000, 1100001}

\* round(n / d) with ties to the even neighbour, n >= 0 and d > 0
RoundDiv(n, d) ==
    LET q == n \div d
        r == n % d
    IN  IF 2 * r > d \/ (2 * r = d /\ q % 2 = 1) THEN q + 1 ELSE q

\* normalize_subscribers(subs), in units of 1/ScoreOne
normalize_subscribers(s) ==
    IF s <= 1000 THEN s * 9000
    ELSE IF s <= 10000 THEN 900000 + (s - 1000) * 400
    ELSE IF s <= 100000 THEN 4500000 + (s - 10000) * 40
    ELSE 8100000 + Min((s - 100000) * 9, 900000)

\* normalize_followers(f), in units of 1/ScoreOne
normalize_followers(f) ==
    IF f <= 1000 THEN f * 9000
    ELSE IF f <= 10000 THEN 900000 + (f - 1000) * 400
    ELSE IF f <= 100000 THEN 4500000 + (f - 10000) * 40
    ELSE 8100000 + Min((f - 100000) * 9, 900000)

\* calc_engagement without the test of the denominator: the division by zero
\* raises, shown as the rate -1
calc_engagement_unguarded(tv, nv, s) ==
    IF nv * s = 0 THEN -1 ELSE RoundDiv(tv * 10000, nv * s)

\* calc_engagement(total_views, total_videos, subs), in hundredths of a percent
calc_engagement(tv, nv, s) ==
    IF nv = 0 \/ s = 0 THEN 0 ELSE RoundDiv(tv * 10000, nv * s)

\* calc_final_score(eng, sub_score, act_score), in hundredths; the scores in thousandths
calc_final_score(eng, sub_score, act_score) ==
    RoundDiv(eng * 4 + sub_score * 30 + act_score * 30, 10)

\* (total_videos / 500).clip(0, 1).round(3), in thousandths
YT_activity_score(nv) == Min(nv * 2, 1000)

\* the engagement_rate lambda of instagram main(), in hundredths of a percent
IG_engagement_rate(likes, comments, views) ==
    IF views > 0 THEN RoundDiv((likes + comments) * 10000, views) ELSE 0

\* the final_score lambda of instagram main(), in hundredths
IG_final_score(rate, follower_score) ==
    RoundDiv(rate * 600 + follower_score, 150000)

S_normalize(s) == IF job = "youtube" THEN normalize_subscribers(s) ELSE normalize_followers(s)

InitScore ==
    /\ job \in ScoreJobs
    /\ runs = <<>> /\ events = {} /\ exc = "none" /\ rejected = FALSE
    /\ gcs = [f \in Files |-> NoBlob(Default(f))]
    /\ tmp = gcs /\ pre = gcs
    /\ run_id = 0
    /\ pc = "s_start"
    /\ \E a \in AudienceSizes, b \in AudienceSizes, x \in 0..MaxCount, y \in 0..MaxCount,
          den \in 0..MaxCount :
         /\ a <= b
         /\ job = "youtube" => y = 0
         \* a, b: audience sizes; x (and y): likes (and comments), or total_views;
         \* den: views, or total_videos
         /\ loc = [a |-> a, b |-> b, x |-> x, y |-> y, den |-> den,
                   score_a |-> 0, score_b |-> 0, rate |-> 0, final |-> 0]

\* the audience score of the two sizes
S_Normalize ==
    /\ pc = "s_start"
    /\ loc' = [loc EXCEPT !.score_a = S_normalize(loc.a), !.score_b = S_normalize(loc.b)]
    /\ pc' = "s_norm"
    /\ UNCHANGED <<job, runs, events, gcs, tmp, run_id, exc, pre, rejected>>

\* the engagement rate of the row whose audience is a
S_Engagement ==
    /\ pc = "s_norm"
    /\ loc' = [loc EXCEPT !.rate = IF job = "youtube"
                                   THEN calc_engagement(loc.x, loc.den, loc.a)
                                   ELSE IG_engagement_rate(loc.x, loc.y, loc.den)]
    /\ pc' = "s_rate"
    /\ UNCHANGED <<job, runs, events, gcs, tmp, run_id, exc, pre, rejected>>

\* the final score of the row
S_Final ==
    /\ pc = "s_rate"
    /\ loc' = [loc EXCEPT !.final =
                 IF job = "youtube"
                 THEN calc_final_score(loc.rate, RoundDiv(loc.score_a, ScoreOne \div 1000),
                                       YT_activity_score(loc.den))
                 ELSE IG_final_score(loc.rate, loc.score_a)]
    /\ pc' = "s_final"
    /\ UNCHANGED <<job, runs, events, gcs, tmp, run_id, exc, pre, rejected>>

NextScore ==
    \/ S_Normalize
    \/ S_Engagement
    \/ S_Final

SpecScore == InitScore /\ [][NextScore]_vars

\* the audience size from which the score of the top band stays at its ceiling
S_Saturation == 1100000

\* C27: the audience score lies in [0,1] and is strictly increasing in the
\* audience size below saturation: a < b gives score(a) < score(b).
C27_ScoreIncreasing ==
    (pc \in {"s_norm", "s_rate", "s_final"}) =>
       /\ loc.score_a >= 0 /\ loc.score_a <= ScoreOne
       /\ (loc.a < loc.b /\ loc.b <= S_Saturation) => loc.score_a < loc.score_b

\* C28: final_score stays within its bound for all non-negative signals:
\* within [0,1] in instagram and within [0,100] in youtube, the rate that
\* enters the sum being within [0,100].
C28_FinalScoreBounded ==
    /\ pc \in {"s_rate", "s_final"} => (loc.rate >= 0 /\ loc.rate <= 10000)
    /\ pc = "s_final" =>
          /\ loc.final >= 0
          /\ loc.final <= IF job = "instagram" THEN 100 ELSE 10000

\* the denominator of the rate is 0
S_ZeroDenominator ==
    IF job = "youtube" THEN loc.den = 0 \/ loc.a = 0 ELSE loc.den = 0

\* C29: the engagement rate is 0 whenever its denominator is 0 (instagram:
\* views; youtube: total_videos or subscribers), and it is never negative
\* for non-negative inputs.
C29_RateDefinedAtZero ==
    (pc \in {"s_rate", "s_final"}) =>
       /\ S_ZeroDenominator => loc.rate = 0
       /\ loc.rate >= 0

\* a youtube row with views and videos but no subscribers, its rate computed
C29_Witness ==
    /\ pc = "s_rate" /\ job = "youtube"
    /\ loc.a = 0 /\ loc.den > 0 /\ loc.x > 0
    /\ loc.rate = 0

\* C30: once a finish_run of the run has failed, main() is in its except
\* handler or has ended with an exception going to the caller; it never
\* returns normally.
C30_FinishFailurePropagates ==
    rejected => /\ pc \in {"except", "done"}
                /\ exc # "none"

\* finish_run(run_id, "ok") failed after the work of the run was saved, and
\* main() has ended
C30_Witness ==
    /\ pc = "done" /\ rejected /\ run_id > 0
    /\ exc = "DbError"
    /\ runs[run_id].status = "error"
    /\ Stored("progress") # pre["progress"]

\* a step keeps every events row and every runs row, and the source of each runs row
AppendOnlyStep ==
    /\ events \subseteq events'
    /\ Len(runs') >= Len(runs)
    /\ \A k \in 1..Len(runs) : runs'[k].source = runs[k].source

\* a step leaves the meta column of every runs row as it was
MetaKeptStep == \A k \in 1..Len(runs) : runs'[k].meta = runs[k].meta

\* C31 as stated: no events row is modified or deleted, and once a runs row
\* exists only its status and finished_at are ever updated.
C31_OnlyStatusAndFinishedAt == [][AppendOnlyStep /\ MetaKeptStep]_vars

\* C31: no events row is modified or deleted, no runs row is deleted, and
\* once a runs row exists the columns updated are status, finished_at and
\* meta, never the others.
C31_AppendOnly == [][AppendOnlyStep]_vars

\* a maps run with live rows whose finish_run has set status, finished_at and meta
C31_Witness ==
    /\ job = "maps" /\ RunOk
    /\ runs[run_id].meta = "rows"
    /\ runs[run_id].finished_at = 1
    /\ <<run_id, "maps">> \in events

\* a cooldown has followed each of the batches that are over
F_CooldownAfterEachBatch == loc.cooldowns * BATCH_SIZE = loc.i

\* C32 as stated: a start-delay step of the batch has been taken before any
\* fetch of the batch starts, the first included, and a cooldown has followed
\* every batch that is over.
C32_DelayBeforeEveryFetch ==
    job = "followers" =>
       /\ F_Started # {} => loc.delays >= 1
       /\ F_CooldownAfterEachBatch

\* C32: the start-delay step follows each submit, so the k-th fetch of a
\* batch starts after k-1 start-delay steps of that batch (the first with
\* none before it), and a cooldown has followed every batch that is over
\* when the next one is dispatched.
C32_DelayAfterEverySubmit ==
    job = "followers" =>
       /\ \A k \in F_Started : loc.delays >= k - 1
       /\ loc.delays <= Len(loc.futs)
       /\ pc \in {"submit", "collect"} => loc.delays = Len(loc.futs)
       /\ F_CooldownAfterEachBatch

\* the only fetch of the second batch runs while main() is in the start delay
C32_Witness ==
    /\ job = "followers" /\ pc = "sleep"
    /\ loc.i = BATCH_SIZE /\ loc.cooldowns = 1
    /\ loc.delays = 0
    /\ F_Running = {1}

(* ------------------------------ C33 ----------------------------------- *)
H_Failures == {"429", "500", "failed"}

H_ErrorRecorded ==
    job = "hunter" =>
      \A k \in 1..Len(loc.fetched) :
        LET f == loc.fetched[k]
            r == loc.df[f.row]
        IN  /\ (f.resp = "429") <=> (r.hunter_error = "rate_limited_429")
            /\ f.resp \in H_Failures => r.hunter_status = "api_error" /\ r.hunter_error # ""
            /\ f.resp \notin H_Failures => r.hunter_error = ""

H_RowStep ==
    (job = "hunter" /\ pc = "rows") => (pc' \in {"rows", "save"} /\ exc' = exc)

\* C33: a 429 answer of the domain search is recorded on the row as the error
\* "rate_limited_429", which no other failure (other status, failed request)
\* produces; every failure comes back as a value, the row gets the status
\* api_error, and the loop goes on to the next row without raising.
C33_RateLimitDistinct == []H_ErrorRecorded /\ [][H_RowStep]_vars

C33_Witness ==
    /\ job = "hunter" /\ RunOk /\ Len(loc.df) >= 2
    /\ loc.df[1].hunter_error = "rate_limited_429"
    /\ loc.df[2].hunter_status = "person_email_found"

(* ------------------------------ C34 ----------------------------------- *)
\* the targets the persisted processed set has gained since the run started
ProcessedAdded ==
    CASE job = "hunter" -> Stored("progress").data.processed_yelp_urls
                             \ pre["progress"].data.processed_yelp_urls
      [] job \in {"followers", "instagram"} ->
             Stored("progress").data.processed_usernames
               \ pre["progress"].data.processed_usernames
      [] OTHER -> {}

\* the followers targets of this run with a fetch that ended in error / without error
F_ErrorTargets == {loc.usernames[e[1]] : e \in {x \in loc.ups : x[2] = "raise"}}
F_GoodTargets == {loc.usernames[e[1]] : e \in {x \in loc.ups : x[2] # "raise"}}

\* the urls of the hunter rows of this run that ended api_error / with a result
H_ErrorUrls == {loc.df[k].Yelp_URL : k \in {n \in 1..Len(loc.df) : loc.df[n].hunter_status = "api_error"}}
H_GoodUrls ==
    {loc.df[k].Yelp_URL :
       k \in {n \in 1..Len(loc.df) : loc.df[n].hunter_status \in FINAL_STATUSES \ {"api_error"}}}

\* C34 (as stated): no target with a fetch that ended in error is added to the
\* persisted processed set.
C34_ErrorTargetNeverSaved ==
    /\ job = "followers" => ProcessedAdded \cap F_ErrorTargets = {}
    /\ job = "hunter" => ProcessedAdded \cap H_ErrorUrls = {}
    /\ job = "instagram" => ProcessedAdded = {}

\* C34: a target enters the persisted processed set only through a fetch that
\* did not end in error: every target the set has gained during a run has a
\* followers fetch with status ok or no_dataset, or a hunter row with a final
\* status other than api_error, in that run.  instagram's main() ends at line
\* 257, before the progress is loaded, so its persisted set never changes.
C34_AddedOnlyByGoodFetch ==
    /\ job = "followers" => ProcessedAdded \subseteq F_GoodTargets
    /\ job = "hunter" => ProcessedAdded \subseteq H_GoodUrls
    /\ job = "instagram" => Stored("progress") = pre["progress"]

C34_Witness ==
    /\ job = "followers" /\ RunOk
    /\ ProcessedAdded # {}
    /\ F_ErrorTargets \ Stored("progress").data.processed_usernames # {}

(* ------------------------------ C35 ----------------------------------- *)
RunEndedError == pc = "done" /\ run_id > 0 /\ runs[run_id].status = "error"

\* C35 (as stated): when a run has ended with status error, the persisted
\* progress and the persisted seen urls are what they were when it started.
C35_ErrorRunSavesNoProgress ==
    RunEndedError => /\ StoredNow["progress"] = pre["progress"]
                     /\ StoredNow["seen"] = pre["seen"]

(* ------------------------------ C36 ----------------------------------- *)
RunMarkedOk == run_id > 0 /\ runs[run_id].status = "ok"

\* once the run is marked ok nothing more is written
NoWriteAfterOk == RunMarkedOk => UNCHANGED <<gcs, tmp, events>>

\* the step that marks the run ok is finish_run(run_id, "ok") at the end of main()
OkMarkedAtEnd ==
    (run_id > 0 /\ run_id' = run_id /\ runs[run_id].status # "ok" /\ runs'[run_id].status = "ok")
      => pc = "finish_ok" /\ pc' = "done" /\ UNCHANGED <<gcs, tmp, events>>

\* a run that is ok and had something to do has its progress object uploaded
ProgressUploadedWhenOk ==
    (RunOk /\ ~(job = "followers" /\ loc.usernames = <<>>))
      => gcs["progress"].exists /\ gcs["progress"] = tmp["progress"]

\* C36: marking the run ok is the last durable action of a run: the run gets
\* the status ok only by the finish_run at the end of main(), when its progress
\* (and master) are already uploaded, and from then on no object, no local file
\* and no events row is written until another run starts.
C36_OkIsLastDurableAction ==
    []ProgressUploadedWhenOk /\ [][NoWriteAfterOk /\ OkMarkedAtEnd]_vars

C36_Witness ==
    /\ job = "hunter" /\ RunOk /\ run_id = 1
    /\ gcs["master"].exists /\ gcs["progress"].data.total_runs = 1
    /\ <<run_id, "hunter_enriched">> \in events

(* ------------------------------ C37 ----------------------------------- *)
CounterJobs == {"followers", "maps", "yelp", "hunter"}

\* C37 (as stated): in the jobs that keep total_runs, a run that ended ok has
\* raised the persisted total_runs by exactly one, whatever path it took, and
\* a run that ended error has left it as it was.
C37_OkRunCountsOnce ==
    job \in CounterJobs =>
      /\ RunOk => StoredNow["progress"].data.total_runs
                    = pre["progress"].data.total_runs + 1
      /\ RunEndedError => StoredNow["progress"].data.total_runs
                            = pre["progress"].data.total_runs

(* ------------------------------ C38 ----------------------------------- *)
CrawledCity == IF job = "maps" THEN loc.current_city ELSE loc.city

NoDuplicates(s) == Cardinality(Range(s)) = Len(s)

\* C38: in maps and yelp a run that ended ok leaves the crawled city in the
\* persisted completed_cities exactly once: the list is the one of the start
\* when the city was in it, and that list with the city appended otherwise,
\* with or without the resume flag, rows or failed keyword fetches.
C38_CityMarkedOnce ==
    (job \in {"maps", "yelp"} /\ RunOk) =>
      LET before == pre["progress"].data.completed_cities
          after == StoredNow["progress"].data.completed_cities
      IN  /\ after = IF CrawledCity \in Range(before) THEN before
                     ELSE Append(before, CrawledCity)
          /\ NoDuplicates(after)

C38_Witness ==
    /\ job = "yelp" /\ RunOk /\ run_id = 2
    /\ loc.city \in Range(pre["progress"].data.completed_cities)
    /\ loc.failed # {} /\ loc.new = <<>>
    /\ StoredNow["progress"].data.completed_cities = <<loc.city>>

(* ------------------------------ C39 ----------------------------------- *)
\* the rows of this run that went through the domain search
H_SearchedRows ==
    {k \in 1..loc.i : loc.df[k].hunter_domain # None /\ loc.df[k].hunter_status # ""}

\* C39: within one hunter run no two upstream searches are for the same
\* normalized domain, and the rows that share a domain carry the same result
\* (status and error), a cached error included.
C39_OneSearchPerDomain ==
    job = "hunter" =>
      /\ \A j, k \in 1..Len(loc.fetched) :
           loc.fetched[j].domain = loc.fetched[k].domain => j = k
      /\ \A a, b \in H_SearchedRows :
           loc.df[a].hunter_domain = loc.df[b].hunter_domain =>
             /\ loc.df[a].hunter_status = loc.df[b].hunter_status
             /\ loc.df[a].hunter_error = loc.df[b].hunter_error
      /\ \A k \in H_SearchedRows :
           \E j \in 1..Len(loc.fetched) : loc.fetched[j].domain = loc.df[k].hunter_domain

C39_Witness ==
    /\ job = "hunter" /\ pc = "save"
    /\ Cardinality(H_SearchedRows) = 2 /\ Len(loc.fetched) = 1
    /\ loc.df[1].Yelp_URL # loc.df[2].Yelp_URL
    /\ loc.df[2].hunter_error = "http_500"

(* ------------------------------ C40 ----------------------------------- *)
Y_MasterUrls == {r.Yelp_URL : r \in Range(StoredNow["master"].data)}

====
